---- MODULE Spec2Model ----
(***************************************************************************)
(* HeirSafe UI: the on-chain state reconciliation and countdown engine.    *)
(*                                                                         *)
(* The model follows the React components of the repository:               *)
(*   App            (scope counter, refreshInstallState, chain handlers)   *)
(*   OwnersView     (rows, signer, dual clock, chain-timestamp poll)       *)
(*   InstallModule  (enable flow, both generations)                        *)
(* One action is one event handler or one continuation of an async         *)
(* function after an await, together with the render and the effects that  *)
(* the state change triggers.                                              *)
(***************************************************************************)
EXTENDS Integers, Sequences, FiniteSets, TLC

VARIABLES
  \* ---- App (App.tsx)
  scope,        \* scopeRef.current
  chainId,      \* useState chainId (NoChain = null)
  safeAddr,     \* useState safeAddr
  safeCheck,    \* useState safeCheck
  predicted,    \* useState predicted ("" = none)
  deployed,     \* useState deployed: "null" | "false" | "true"
  enabled,      \* useState enabled:  "null" | "false" | "true"
  status,       \* useState status
  passes,       \* refreshInstallState calls suspended at an await
  \* ---- OwnersView (OwnersView.tsx), the mounted instance
  viewInst,     \* 1 while an OwnersView instance is mounted, 0 otherwise
  rows,         \* useState rows
  signerAddr,   \* useState signerAddr
  busyByOwner,  \* useState busyByOwner (set of keys whose flag is true)
  nowSec,       \* useState nowSec
  chainTs,      \* useState chainTs
  pollTimers,   \* number of live setInterval timers of the poll effect
  pollReads,    \* refreshChainTs calls suspended at getBlock("latest")
  signerReads,  \* updateFromWallet calls suspended at getSigner/getAddress
  loads,        \* loadRows calls suspended at an await
  isSafeApp,    \* useSafeApp().isSafeApp
  \* ---- InstallModule (InstallModule.tsx)
  flows,        \* enable() / enableStandaloneSmart() calls suspended at an await
  txLog,        \* transactions handed to the wallet for sending
  instructions, \* useState instructions (enableStandaloneSmart)
  note,         \* useState note (enable)
  \* ---- OwnersView actions (doSet, doProlong, doRemove, doClaim)
  acts,         \* doSet / doProlong / doRemove / doClaim calls suspended at an await
  toast,        \* the message of the last toast pushed
  editing,      \* useState editing (NoEdit: null, no row is being edited)
  \* ---- environment: wallet and chain
  walletAccount, \* the account the wallet exposes
  chainTime,     \* timestamp of the latest block
  wallClock,     \* Date.now() / 1000 of the browser
  cfg,           \* module storage: heirConfigs(owner)
  modules,       \* modules enabled in a Safe: <<chain, safe, module>>
  ownerList,     \* the owner list of the Safe the module is installed in
  \* ---- library functions taken on their own
  arg,           \* the arguments a function is called with
  res,           \* <<what the call returned>>, <<>> before the call
  loc,           \* the local variables of a call suspended inside a loop
  \* ---- history
  lastStep,      \* what the last step was: an event, or what a continuation did
  nEvents,       \* number of triggering events so far
  staleLoad      \* a loadRows in flight across a network change: "none", "inflight", "resolved"

appVars  == <<scope, chainId, safeAddr, safeCheck, predicted, deployed, enabled, status, passes>>
viewVars == <<viewInst, rows, signerAddr, busyByOwner, nowSec, chainTs, pollTimers,
              pollReads, signerReads, loads, isSafeApp>>
instVars == <<flows, txLog, instructions, note>>
actVars  == <<acts, toast, editing>>
envVars  == <<walletAccount, chainTime, wallClock, cfg, modules, ownerList>>
pureVars == <<arg, res, loc>>
histVars == <<lastStep, nEvents, staleLoad>>
vars     == <<appVars, viewVars, instVars, actVars, envVars, pureVars, histVars>>

----------------------------------------------------------------------------
(* Bounds of the model *)

MaxEvents == 3   \* triggering events explored (load, network, address, refresh)
MaxPasses == 2   \* refreshInstallState calls in flight at once
MaxTime   == 3   \* largest clock value (local clock and block timestamp)
MaxOwners == 3   \* longest owner list a library function is called with
MaxClicks == 1   \* clicks on Save, Remove and Claim in one behaviour
MaxModules == 3  \* module addresses in a Safe's module mapping
MaxCalls  == 6   \* the count of getModulesPaginated calls stops at this value
MaxDays   == 2   \* whole days in a remaining duration

----------------------------------------------------------------------------
(* Addresses.  ethers returns checksummed (mixed-case) addresses; comparisons *)
(* in the source go through toLowerCase().                                    *)

ZeroAddress == "0x0"
SENTINEL    == "0x1"
Owners      == {"Oa", "Ob", "Oc"}
Heirs       == {"Ha"}
Accounts    == Owners \cup Heirs
SafeInputs  == {"bad", "SA"}
Modules     == {"MA", "MB"}
Factories   == {"FX", "FY", "FW"}
Addresses   == {ZeroAddress, SENTINEL} \cup Accounts \cup {"SA", "SB"} \cup Modules \cup Factories

toLowerCase(a) ==
  CASE a = "Oa" -> "oa" [] a = "Ob" -> "ob" [] a = "Oc" -> "oc" [] a = "Ha" -> "ha"
    [] a = "SA" -> "sa" [] a = "SB" -> "sb" [] a = "MA" -> "ma" [] a = "MB" -> "mb"
    [] a = "FX" -> "fx" [] a = "FY" -> "fy" [] a = "FW" -> "fw"
    [] OTHER -> a

isAddress(a) == a \in Addresses

----------------------------------------------------------------------------
(* Static configuration and the chain as the read provider sees it *)

\* X, Y: the factory is deployed; W: a factory address is configured but has no
\* code there; Z: no factory is configured
Chains  == {"X", "Y", "W", "Z"}
NoChain == "null"

getFactoryAddress(c) ==
  CASE c = "X" -> "FX" [] c = "Y" -> "FY" [] c = "W" -> "FW" [] OTHER -> ""

normalizedFactory(c) ==
  IF c # NoChain /\ getFactoryAddress(c) # "" /\ isAddress(getFactoryAddress(c))
  THEN getFactoryAddress(c) ELSE ""

readyForChain(c) == normalizedFactory(c) # ""

\* getOwners() of the Safe at address a on chain c (<<>>: no Safe there); the
\* owners of the Safe that has the module installed change with a claim
getOwners(c, a) ==
  CASE c = "X" /\ a = "SA" -> ownerList
    [] c = "X" /\ a = "SB" -> <<"Ob", "Oc">>
    [] c = "Y" /\ a = "SA" -> <<"Oc", "Oa">>
    [] c = "Y" /\ a = "SB" -> <<"Oa", "Ob">>
    [] c = "W" /\ a = "SA" -> <<"Oa", "Ob">>
    [] OTHER -> <<>>

\* getThreshold() of the Safe at address a on chain c
getThreshold(c, a) ==
  CASE c = "X" /\ a = "SA" -> 1
    [] c = "X" /\ a = "SB" -> 2
    [] c = "Y" /\ a = "SA" -> 1
    [] c = "Y" /\ a = "SB" -> 1
    [] c = "W" /\ a = "SA" -> 1
    [] OTHER -> 0

\* provider.getCode(addr) # "0x" on chain c
getCode(c, addr) ==
  \/ addr \in {"SA", "SB"} /\ getOwners(c, addr) # <<>>
  \/ addr = "FX" /\ c = "X"
  \/ addr = "FY" /\ c = "Y"
  \/ addr = "MA" /\ c = "X"
  \/ addr = "MB" /\ c \in {"X", "Y"}

\* HeirSafeModuleFactoryABI: the functions of the factory with their number of inputs
FactoryABI == {<<"implementation", 0>>, <<"predict", 2>>, <<"deploy", 2>>}

\* a call contract.name(args) with nargs arguments finds a fragment of the ABI
\* (ethers matches a function by its name and its number of inputs)
hasFragment(abi, name, nargs) == <<name, nargs>> \in abi

\* factory.predict(safe, salt)
predictModuleForSafe(c, f, a) == IF a = "SA" THEN "MA" ELSE "MB"

\* the Safe's enabled-module list on chain c
enabledModules(c, a) == {t[3] : t \in {x \in modules : x[1] = c /\ x[2] = a}}

\* isModuleEnabled(provider, safe, module), imported by App as checkEnabled
checkEnabled(c, a, m) ==
  \E x \in enabledModules(c, a) : toLowerCase(x) = toLowerCase(m)

Range(s) == {s[i] : i \in 1..Len(s)}

\* owners.findIndex(o => o.toLowerCase() === owner.toLowerCase()), counted from
\* 1, with 0 for "not found"
findIndex(owners, owner) ==
  LET hits == {i \in 1..Len(owners) : toLowerCase(owners[i]) = toLowerCase(owner)}
  IN IF hits = {} THEN 0 ELSE CHOOSE i \in hits : \A j \in hits : i <= j

\* computePrevOwner(provider, safe, owner) once getOwners has returned `owners`
computePrevOwner(owners, owner) ==
  LET i == findIndex(owners, owner)
  IN IF i = 0 THEN [ok |-> FALSE, value |-> "Owner not in Safe"]
     ELSE [ok |-> TRUE, value |-> IF i = 1 THEN ZeroAddress ELSE owners[i - 1]]

----------------------------------------------------------------------------
(* App: install state *)

Null == "null"
B(b) == IF b THEN "true" ELSE "false"

Idle       == [status |-> "idle",     label |-> "", owners |-> <<>>, threshold |-> 0]
Checking   == [status |-> "checking", label |-> "", owners |-> <<>>, threshold |-> 0]
Invalid(l) == [status |-> "invalid",  label |-> l,  owners |-> <<>>, threshold |-> 0]
Ok(o, t)   == [status |-> "ok",       label |-> "", owners |-> o,    threshold |-> t]

\* the five pieces of shared install state of the current render
St == [safeCheck |-> safeCheck, predicted |-> predicted, deployed |-> deployed,
       enabled |-> enabled, status |-> status]

Cleared(st, sc, msg) ==
  [st EXCEPT !.safeCheck = sc, !.predicted = "", !.deployed = Null,
             !.enabled = Null, !.status = msg]

Commit(st) ==
  /\ safeCheck' = st.safeCheck
  /\ predicted' = st.predicted
  /\ deployed'  = st.deployed
  /\ enabled'   = st.enabled
  /\ status'    = st.status

\* a validation that takes any threshold
safeValidationAnyThreshold(a, hasCode, owners, th, readFails) ==
  IF ~isAddress(a)
    THEN [ok |-> FALSE, reason |-> "invalid_address", owners |-> <<>>, threshold |-> 0]
  ELSE IF readFails
    THEN [ok |-> FALSE, reason |-> "not_safe", owners |-> <<>>, threshold |-> 0]
  ELSE IF ~hasCode
    THEN [ok |-> FALSE, reason |-> "no_code", owners |-> <<>>, threshold |-> 0]
  ELSE IF Len(owners) >= 1
    THEN [ok |-> TRUE, reason |-> "", owners |-> owners, threshold |-> th]
  ELSE [ok |-> FALSE, reason |-> "not_safe", owners |-> <<>>, threshold |-> 0]

\* the body of validateSafeOnChain over what its reads return: the code at the
\* address, getOwners() and getThreshold(); readFails: one of the reads throws
\* and the catch block answers
safeValidation(a, hasCode, owners, th, readFails) ==
  IF ~isAddress(a)
    THEN [ok |-> FALSE, reason |-> "invalid_address", owners |-> <<>>, threshold |-> 0]
  ELSE IF readFails
    THEN [ok |-> FALSE, reason |-> "not_safe", owners |-> <<>>, threshold |-> 0]
  ELSE IF ~hasCode
    THEN [ok |-> FALSE, reason |-> "no_code", owners |-> <<>>, threshold |-> 0]
  ELSE IF Len(owners) >= 1 /\ th > 0
    THEN [ok |-> TRUE, reason |-> "", owners |-> owners, threshold |-> th]
  ELSE [ok |-> FALSE, reason |-> "not_safe", owners |-> <<>>, threshold |-> 0]

\* validateSafeOnChain(provider, addr); readFails: some read inside it throws
validateSafeOnChain(c, a, readFails) ==
  safeValidation(a, getCode(c, a), getOwners(c, a), getThreshold(c, a), readFails)

validationLabel(v) ==
  CASE v.reason = "invalid_address" -> "Invalid address"
    [] v.reason = "no_code"         -> "Address is not a contract on this network"
    [] v.reason = "not_safe"        -> "This address is not a Gnosis Safe on this network"
    [] OTHER                        -> "Validation failed"

\* bumpScope: ++scopeRef.current
bumpScope(sc) == sc + 1

\* refreshInstallState up to its first await, called with scope counter sc in
\* a render whose closure holds Safe address sa and chain ch.
\* Result: the install state written and the suspended call, if any.
refreshStart(st, sc, sa, ch) ==
  IF ~isAddress(sa)
    THEN [st |-> Cleared(st, Invalid("Invalid address"), "Enter a valid Safe address"),
          pass |-> {}]
  ELSE IF normalizedFactory(ch) = ""
    THEN [st |-> Cleared(st, Invalid("Factory not configured for this network"),
                         "Factory not configured for this network"),
          pass |-> {}]
  ELSE [st |-> [st EXCEPT !.safeCheck = Checking],
        pass |-> {[myScope |-> sc, safe |-> sa, chain |-> ch, pc |-> "validate",
                   addr |-> "", hasCode |-> FALSE]}]

\* the refresh effect (deps safeAddr, readProvider, readyForChain, chainId):
\* starts a pass without bumping the scope
refreshEffect(st, sc, sa, ch) ==
  IF ~readyForChain(ch) THEN [st |-> st, pass |-> {}]
  ELSE refreshStart(st, sc, sa, ch)

----------------------------------------------------------------------------
(* OwnersView: derived values of a render *)

\* editing === null
NoEdit == [mode |-> "none", owner |-> ""]

ZeroRow(o) == [owner |-> o, beneficiary |-> ZeroAddress, ts |-> 0]

\* module.heirConfigs(owner) read through the provider
heirConfigs(c, m, o) ==
  IF m = "MA" /\ o \in DOMAIN cfg THEN cfg[o] ELSE [beneficiary |-> ZeroAddress, ts |-> 0]

\* needsSync (useMemo over rows, nowSec, chainTs)
needsSync(rs, now, cts) ==
  \E i \in 1..Len(rs) : rs[i].ts # 0 /\ now >= rs[i].ts /\ cts < rs[i].ts

\* a poll effect whose previous interval is never cleared
pollEffectNoCleanup(old, new, timers) ==
  IF old = new THEN [timers |-> timers, kick |-> FALSE]
  ELSE [timers |-> timers + (IF new THEN 1 ELSE 0), kick |-> new]

\* a poll effect that reads once and sets no interval
pollEffectKickOnly(old, new, timers) ==
  IF old = new THEN [timers |-> timers, kick |-> FALSE]
  ELSE [timers |-> 0, kick |-> new]

\* the poll effect (deps needsSync, readProvider) run after a render in which
\* needsSync went from old to new: the cleanup of the previous run clears its
\* interval, the new run kicks one read and sets a new interval
pollEffect(old, new, timers) ==
  IF old = new THEN [timers |-> timers, kick |-> FALSE]
  ELSE [timers |-> (timers - (IF old THEN 1 ELSE 0)) + (IF new THEN 1 ELSE 0),
        kick |-> new]

\* effects of a render of the mounted instance with the given state
RunPollEffect(newRows, newNow, newCts) ==
  LET e == pollEffect(needsSync(rows, nowSec, chainTs),
                      needsSync(newRows, newNow, newCts), pollTimers)
  IN /\ pollTimers' = e.timers
     /\ pollReads' = IF e.kick THEN pollReads \cup {chainTime} ELSE pollReads

\* write access that does not look at the enabled prop
canWriteIgnoringEnabled == isAddress(predicted) /\ ~isSafeApp

\* canWriteGlobally: readProvider, well-formed module address, enabled, not a Safe App
canWriteGlobally == isAddress(predicted) /\ enabled = "true" /\ ~isSafeApp

\* rowBusy: busyByOwner[r.owner.toLowerCase()]
rowBusy(r) == toLowerCase(r.owner) \in busyByOwner

isOwnerSigner(r) ==
  signerAddr # "" /\ toLowerCase(signerAddr) = toLowerCase(r.owner)

signerIsBeneficiary(r) ==
  /\ signerAddr # ""
  /\ r.beneficiary # ZeroAddress
  /\ toLowerCase(signerAddr) = toLowerCase(r.beneficiary)

localFuture(r)  == nowSec < r.ts

\* readiness taken from the local clock
onChainReadyLocal(r) == nowSec >= r.ts

onChainReady(r) == chainTs >= r.ts

disableRowActions(r) == ~canWriteGlobally \/ ~isOwnerSigner(r) \/ rowBusy(r)

disableClaim(r) ==
  ~canWriteGlobally \/ ~signerIsBeneficiary(r) \/ ~onChainReady(r) \/ rowBusy(r)

\* the Claim button is rendered only when signerIsBeneficiary, and is clickable
\* when not disabled
ClaimEnabled(r) == signerIsBeneficiary(r) /\ ~disableClaim(r)

\* what the activation cell shows
Display(r) ==
  IF r.ts = 0 THEN "Unset"
  ELSE IF localFuture(r) THEN "CountingDown"
  ELSE IF onChainReady(r) THEN "Available"
  ELSE "Synchronizing"

----------------------------------------------------------------------------
(* App render: which OwnersView instance is mounted *)

\* OwnersView kept mounted while checking, keyed by the Safe address alone
ViewKeyBySafeOnly(st, sa, ch) ==
  IF st.safeCheck.status \in {"ok", "checking"} THEN <<sa>> ELSE <<>>

\* <OwnersView key={safeAddr:predicted:chainId}> rendered only when safeCheck is ok
ViewKey(st, sa, ch) ==
  IF st.safeCheck.status = "ok" THEN <<sa, st.predicted, ch>> ELSE <<>>

\* loadRows up to its first await, in an instance rendered with (safeAddr, moduleAddr)
loadStart(sa, m) ==
  IF ~isAddress(sa) THEN {}
  ELSE {[live |-> TRUE, safe |-> sa, module |-> m, pc |-> "getOwners", owners |-> <<>>,
         by |-> 0]}

\* await loadRows() inside the action with the given id
\* a handler that ends without reading the rows again
reloadNone(sa, m, id) == {}

\* await loadRows() called by an action handler after tx.wait()
reloadStart(sa, m, id) == {[l EXCEPT !.by = id] : l \in loadStart(sa, m)}

\* a loadRows call whose instance has been unmounted: React ignores the setRows
\* of an unmounted instance, so nothing it still reads can reach the state
DeadLoad == [live |-> FALSE, safe |-> "", module |-> "", pc |-> "unmounted", owners |-> <<>>,
             by |-> 0]

orphaned(ls) == IF ls = {} THEN {} ELSE {DeadLoad}

\* async calls of a component instance that has been unmounted keep running,
\* the state setters they call reach no instance
unmountFlows(fl) == {[f EXCEPT !.live = FALSE] : f \in fl}

\* the render that follows a change of App state to (st, sa, ch): the mounted
\* OwnersView is kept, unmounted (effects cleaned up) or replaced by a new
\* instance whose mount effects start updateFromWallet and loadRows
ViewRerender(st, sa, ch) ==
  LET old == ViewKey(St, safeAddr, chainId)
      new == ViewKey(st, sa, ch)
  IN IF new = old
       THEN UNCHANGED <<viewInst, rows, signerAddr, busyByOwner, nowSec, chainTs,
                        pollTimers, pollReads, signerReads, loads, actVars>>
     ELSE IF new = <<>>
       THEN /\ viewInst' = 0
            /\ acts' = unmountFlows(acts) /\ toast' = "" /\ editing' = NoEdit
            /\ rows' = <<>> /\ signerAddr' = "" /\ busyByOwner' = {}
            /\ nowSec' = 0 /\ chainTs' = 0
            /\ pollTimers' = 0 /\ pollReads' = {} /\ signerReads' = {}
            /\ loads' = orphaned(loads)
     ELSE /\ viewInst' = 1
          /\ acts' = unmountFlows(acts) /\ toast' = "" /\ editing' = NoEdit
          /\ rows' = <<>> /\ signerAddr' = "" /\ busyByOwner' = {}
          /\ nowSec' = wallClock /\ chainTs' = 0
          /\ pollTimers' = 0 /\ pollReads' = {}
          /\ signerReads' = {walletAccount}
          /\ loads' = orphaned(loads) \cup loadStart(sa, st.predicted)

\* a render condition that takes every value of enabled other than true as not
\* enabled
InstallMountedNotEnabled(st, sa, ch) ==
  /\ st.safeCheck.status = "ok"
  /\ st.enabled # "true"
  /\ st.deployed # Null
  /\ isAddress(sa)
  /\ normalizedFactory(ch) # ""
  /\ st.predicted # ""

\* <InstallModule> is rendered only when the Safe is valid, the validation has
\* finished and the module is not enabled
InstallMounted(st, sa, ch) ==
  /\ st.safeCheck.status = "ok"
  /\ st.enabled = "false"
  /\ st.deployed # Null
  /\ isAddress(sa)
  /\ normalizedFactory(ch) # ""
  /\ st.predicted # ""

\* the same render for InstallModule, with fl, nt and ins the flows, note and
\* instructions the step leaves when the instance stays mounted
InstallRerender(st, sa, ch, fl, nt, ins) ==
  IF InstallMounted(st, sa, ch)
    THEN /\ flows' = fl
         /\ note' = IF InstallMounted(St, safeAddr, chainId) THEN nt ELSE ""
         /\ instructions' = IF InstallMounted(St, safeAddr, chainId) THEN ins ELSE <<>>
  ELSE /\ flows' = unmountFlows(fl)
       /\ note' = ""
       /\ instructions' = <<>>

Rerender(st, sa, ch) ==
  /\ ViewRerender(st, sa, ch)
  /\ InstallRerender(st, sa, ch, flows, note, instructions)

----------------------------------------------------------------------------
(* App: event handlers *)

\* what an App-level action leaves alone
AppFrame == UNCHANGED <<isSafeApp, txLog, envVars, pureVars>>

\* getNetwork() resolves after mount: setChainId, then the chainId effect
\* (bump, clear) and the refresh effect run
NetworkDetected(c) ==
  /\ chainId = NoChain
  /\ nEvents < MaxEvents
  /\ LET cleared == Cleared(St, Checking, "Checking")
         r == refreshEffect(cleared, bumpScope(scope), safeAddr, c)
     IN /\ chainId' = c
        /\ scope' = bumpScope(scope)
        /\ passes' = passes \cup r.pass
        /\ Commit(r.st)
        /\ Rerender(r.st, safeAddr, c)
  /\ lastStep' = "networkDetected"
  /\ UNCHANGED staleLoad
  /\ nEvents' = nEvents + 1
  /\ UNCHANGED safeAddr
  /\ AppFrame

\* the wallet's chainChanged event (handler registered when not inside a Safe):
\* the handler bumps and clears, then the render runs the chainId effect
\* (bump, clear) and the refresh effect
ChainChanged(c) ==
  /\ chainId # NoChain /\ c # chainId /\ ~isSafeApp
  /\ nEvents < MaxEvents
  /\ LET handled == Cleared(St, Checking, "Switched network")
         cleared == Cleared(handled, Checking, "Checking")
         sc      == bumpScope(bumpScope(scope))
         r       == refreshEffect(cleared, sc, safeAddr, c)
     IN /\ Cardinality(passes \cup r.pass) <= MaxPasses
        /\ chainId' = c
        /\ scope' = sc
        /\ passes' = passes \cup r.pass
        /\ Commit(r.st)
        /\ Rerender(r.st, safeAddr, c)
  /\ lastStep' = "chainChanged"
  /\ staleLoad' = IF loads # {} THEN "inflight" ELSE "none"
  /\ nEvents' = nEvents + 1
  /\ UNCHANGED safeAddr
  /\ AppFrame

\* the Safe address input changes: setSafeAddr, then the refresh effect
SetSafeAddr(a) ==
  /\ a # safeAddr /\ ~isSafeApp
  /\ nEvents < MaxEvents
  /\ LET r == refreshEffect(St, scope, a, chainId)
     IN /\ Cardinality(passes \cup r.pass) <= MaxPasses
        /\ safeAddr' = a
        /\ passes' = passes \cup r.pass
        /\ Commit(r.st)
        /\ Rerender(r.st, a, chainId)
  /\ lastStep' = IF readyForChain(chainId) THEN "passOnSafeAddr" ELSE "none"
  /\ UNCHANGED staleLoad
  /\ nEvents' = nEvents + 1
  /\ UNCHANGED <<scope, chainId>>
  /\ AppFrame

\* the Refresh button: bumpScope(); refreshInstallState()
RefreshClick ==
  /\ nEvents < MaxEvents
  /\ LET r == refreshStart(St, bumpScope(scope), safeAddr, chainId)
     IN /\ Cardinality(passes \cup r.pass) <= MaxPasses
        /\ scope' = bumpScope(scope)
        /\ passes' = passes \cup r.pass
        /\ Commit(r.st)
        /\ Rerender(r.st, safeAddr, chainId)
  /\ lastStep' = "refreshClick"
  /\ UNCHANGED staleLoad
  /\ nEvents' = nEvents + 1
  /\ UNCHANGED <<chainId, safeAddr>>
  /\ AppFrame

----------------------------------------------------------------------------
(* App: continuations of refreshInstallState *)

\* a guard that lets every continuation through
isCurrentAlways(p) == TRUE

\* getScope() === myScope
isCurrent(p) == scope = p.myScope

\* isNetworkChangedError(e) is decided by the error the provider throws
ThrowingPcs == {"getCode", "predict", "codeExists", "checkEnabled"}

\* a continuation of pass p ends: it leaves `next` suspended and has written st
PassEnds(p, st, next, what) ==
  /\ passes' = (passes \ {p}) \cup next
  /\ Commit(st)
  /\ Rerender(st, safeAddr, chainId)
  /\ lastStep' = what
  /\ UNCHANGED <<scope, chainId, safeAddr, nEvents, staleLoad>>
  /\ AppFrame

\* the catch block once the error is neither network noise nor stale
catchWrites(st, msg) ==
  Cleared(st, IF st.safeCheck.status = "checking" THEN Invalid("Validation failed")
              ELSE st.safeCheck, msg)

\* setStatus(`Error: ${e.message}`) for the error thrown over a factory
\* without code, and for the error of a read the provider could not answer
FactoryNotDeployed == "Error: Factory not deployed on this network"
ReadFailed         == "Error: missing response"

\* a pass that takes every factory for deployed
factoryHasCodeAlways(c, f) == TRUE

\* factoryCode = await readProvider.getCode(normalizedFactory) is not "0x"
factoryHasCode(c, f) == getCode(c, f)

\* await validateSafeOnChain(...) returns
PassValidated(p, readFails) ==
  /\ p \in passes /\ p.pc = "validate"
  /\ LET v == validateSafeOnChain(chainId, p.safe, readFails)
     IN IF ~isCurrent(p) THEN PassEnds(p, St, {}, "dropped")
        ELSE IF ~v.ok
          THEN PassEnds(p, Cleared(St, Invalid(validationLabel(v)), validationLabel(v)),
                        {}, "wrote")
        ELSE PassEnds(p, [St EXCEPT !.safeCheck = Ok(v.owners, v.threshold)],
                      {[p EXCEPT !.pc = "getCode"]}, "wrote")

\* await getCode(normalizedFactory) returns
PassFactoryCode(p) ==
  /\ p \in passes /\ p.pc = "getCode"
  /\ IF ~isCurrent(p) THEN PassEnds(p, St, {}, "dropped")
     ELSE IF ~factoryHasCode(chainId, normalizedFactory(p.chain))
       THEN PassEnds(p, catchWrites(St, FactoryNotDeployed), {}, "factoryMissing")
     ELSE PassEnds(p, St, {[p EXCEPT !.pc = "predict"]}, "none")

\* await predictModuleForSafe(...) returns
PassPredicted(p) ==
  /\ p \in passes /\ p.pc = "predict"
  /\ LET addr == predictModuleForSafe(chainId, normalizedFactory(p.chain), p.safe)
     IN IF ~isCurrent(p) THEN PassEnds(p, St, {}, "dropped")
        ELSE PassEnds(p, [St EXCEPT !.predicted = addr],
                      {[p EXCEPT !.pc = "codeExists", !.addr = addr]}, "wrote")

\* await codeExists(addr) returns; without code `en` is false without a read
PassCodeExists(p) ==
  /\ p \in passes /\ p.pc = "codeExists"
  /\ LET hasCode == getCode(chainId, p.addr)
     IN IF ~isCurrent(p) THEN PassEnds(p, St, {}, "dropped")
        ELSE IF hasCode
          THEN PassEnds(p, [St EXCEPT !.deployed = "true"],
                        {[p EXCEPT !.pc = "checkEnabled", !.hasCode = TRUE]}, "wrote")
        ELSE PassEnds(p, [St EXCEPT !.deployed = "false", !.enabled = "false",
                                    !.status = "Module not deployed"], {}, "wrote")

\* await checkEnabled(safe, addr) returns
PassCheckEnabled(p) ==
  /\ p \in passes /\ p.pc = "checkEnabled"
  /\ LET en == checkEnabled(chainId, p.safe, p.addr)
     IN IF ~isCurrent(p) THEN PassEnds(p, St, {}, "dropped")
        ELSE PassEnds(p, [St EXCEPT !.enabled = B(en),
                                    !.status = IF en THEN "Module installed"
                                               ELSE "Module deployed, not enabled"],
                      {}, "wrote")

\* one of the awaited reads throws: the catch block
PassThrows(p, netChanged) ==
  /\ p \in passes /\ p.pc \in ThrowingPcs
  /\ IF netChanged THEN PassEnds(p, St, {}, "absorbed")
     ELSE IF ~isCurrent(p) THEN PassEnds(p, St, {}, "droppedError")
     ELSE PassEnds(p, catchWrites(St, ReadFailed), {}, "readFailed")

----------------------------------------------------------------------------
(* OwnersView: loadRows *)

ViewFrame ==
  /\ lastStep' = "none"
  /\ UNCHANGED <<appVars, isSafeApp, instVars, actVars, envVars, pureVars, nEvents, staleLoad>>

\* setRows(base) in the mounted instance; then the poll effect runs
setRows(l, base) ==
  /\ rows' = base
  /\ RunPollEffect(base, nowSec, chainTs)

baseRows(owners) == [i \in 1..Len(owners) |-> ZeroRow(owners[i])]

\* await getOwners(readProvider, safeAddr) returns or throws
LoadOwners(l, fails) ==
  /\ l \in loads /\ l.pc = "getOwners"
  /\ LET owners == getOwners(chainId, l.safe)
     IN IF fails
          THEN /\ loads' = loads \ {l}
               /\ UNCHANGED <<rows, pollTimers, pollReads>>
        ELSE IF isAddress(l.module)
          THEN /\ loads' = (loads \ {l}) \cup {[l EXCEPT !.pc = "getCode", !.owners = owners]}
               /\ UNCHANGED <<rows, pollTimers, pollReads>>
        ELSE /\ loads' = loads \ {l}
             /\ setRows(l, baseRows(owners))
  /\ UNCHANGED <<viewInst, signerAddr, busyByOwner, nowSec, chainTs, signerReads>>
  /\ ViewFrame

\* a load that takes every module address as deployed
hasModuleCodeAlways(c, m) == TRUE

\* hasModuleCode = !!code && code !== "0x"
hasModuleCode(c, m) == getCode(c, m)

\* await getCode(moduleAddr) returns or throws
LoadCode(l, fails) ==
  /\ l \in loads /\ l.pc = "getCode"
  /\ IF fails
       THEN /\ loads' = loads \ {l}
            /\ UNCHANGED <<rows, pollTimers, pollReads>>
     ELSE IF hasModuleCode(chainId, l.module)
       THEN /\ loads' = (loads \ {l}) \cup {[l EXCEPT !.pc = "heirConfigs"]}
            /\ UNCHANGED <<rows, pollTimers, pollReads>>
     ELSE /\ loads' = loads \ {l}
          /\ setRows(l, baseRows(l.owners))
  /\ UNCHANGED <<viewInst, signerAddr, busyByOwner, nowSec, chainTs, signerReads>>
  /\ ViewFrame

\* the row of one owner after its heirConfigs read returned or threw
configRow(c, m, o, failed) ==
  IF failed THEN ZeroRow(o)
  ELSE [owner |-> o, beneficiary |-> heirConfigs(c, m, o).beneficiary,
        ts |-> heirConfigs(c, m, o).ts]

\* await Promise.all(heirConfigs per owner) returns; the reads of the owners
\* in `failing` threw
LoadConfigs(l, failing) ==
  /\ l \in loads /\ l.pc = "heirConfigs"
  /\ failing \subseteq Range(l.owners)
  /\ loads' = loads \ {l}
  /\ setRows(l, [i \in 1..Len(l.owners) |->
                   configRow(chainId, l.module, l.owners[i], l.owners[i] \in failing)])
  /\ UNCHANGED <<viewInst, signerAddr, busyByOwner, nowSec, chainTs, signerReads>>
  /\ ViewFrame

\* a loadRows call of an unmounted instance runs to its end
LoadOrphanEnds ==
  /\ DeadLoad \in loads
  /\ loads' = loads \ {DeadLoad}
  /\ staleLoad' = IF staleLoad = "inflight" THEN "resolved" ELSE staleLoad
  /\ lastStep' = "none"
  /\ UNCHANGED <<viewInst, rows, signerAddr, busyByOwner, nowSec, chainTs, pollTimers,
                 pollReads, signerReads, isSafeApp>>
  /\ UNCHANGED <<appVars, instVars, actVars, envVars, pureVars, nEvents>>

----------------------------------------------------------------------------
(* OwnersView: signer *)

\* the wallet's accountsChanged event: the listener of the mounted view calls
\* updateFromWallet()
AccountsChanged(a) ==
  /\ a \in Accounts /\ a # walletAccount
  /\ walletAccount' = a
  /\ signerReads' = IF viewInst # 0 THEN signerReads \cup {a} ELSE signerReads
  /\ lastStep' = "accountsChanged"
  /\ UNCHANGED <<viewInst, rows, signerAddr, busyByOwner, nowSec, chainTs, pollTimers,
                 pollReads, loads, isSafeApp>>
  /\ UNCHANGED <<appVars, instVars, actVars, chainTime, wallClock, cfg, modules, ownerList, pureVars,
                 nEvents, staleLoad>>

\* updateFromWallet resolves with the account it read, setSignerAddr(addr), or
\* getSigner fails, setSignerAddr("")
SignerRead(a, fails) ==
  /\ a \in signerReads
  /\ signerReads' = signerReads \ {a}
  /\ signerAddr' = IF fails THEN "" ELSE a
  /\ UNCHANGED <<viewInst, rows, busyByOwner, nowSec, chainTs, pollTimers, pollReads,
                 loads>>
  /\ ViewFrame

----------------------------------------------------------------------------
(* The App with its OwnersView: reconciliation across network and address changes *)

DefaultCfg ==
  [o \in Accounts |-> IF o = "Oa" THEN [beneficiary |-> "Ha", ts |-> 2]
                    ELSE [beneficiary |-> ZeroAddress, ts |-> 0]]

InitQuiet ==
  /\ flows = {} /\ txLog = {} /\ instructions = <<>> /\ note = ""
  /\ modules = {<<"X", "SA", "MA">>}
  /\ ownerList = <<"Oa", "Ob">>
  /\ acts = {} /\ toast = "" /\ editing = NoEdit
  /\ lastStep = "none" /\ nEvents = 0 /\ staleLoad = "none"

\* no library function is being looked at on its own
InitCommon == InitQuiet /\ arg = <<>> /\ res = <<>> /\ loc = <<>>

\* the App before its first effect has run
InitUnmounted ==
  /\ scope = 0
  /\ chainId = NoChain
  /\ safeAddr \in SafeInputs
  /\ safeCheck = Idle
  /\ predicted = "" /\ deployed = Null /\ enabled = Null /\ status = ""
  /\ passes = {}
  /\ viewInst = 0 /\ rows = <<>> /\ signerAddr = "" /\ busyByOwner = {}
  /\ nowSec = 0 /\ chainTs = 0 /\ pollTimers = 0 /\ pollReads = {}
  /\ signerReads = {} /\ loads = {}
  /\ isSafeApp = FALSE
  /\ walletAccount = "Oa"
  /\ chainTime = 1 /\ wallClock = 0
  /\ cfg = DefaultCfg

InitApp == InitUnmounted /\ InitCommon

NextApp ==
  \/ \E c \in Chains : NetworkDetected(c)
  \/ \E c \in Chains : ChainChanged(c)
  \/ \E a \in SafeInputs : SetSafeAddr(a)
  \/ RefreshClick
  \/ \E p \in passes, f \in BOOLEAN : PassValidated(p, f)
  \/ \E p \in passes : PassFactoryCode(p)
  \/ \E p \in passes : PassPredicted(p)
  \/ \E p \in passes : PassCodeExists(p)
  \/ \E p \in passes : PassCheckEnabled(p)
  \/ \E p \in passes, n \in BOOLEAN : PassThrows(p, n)
  \/ \E l \in loads, f \in BOOLEAN : LoadOwners(l, f)
  \/ \E l \in loads, f \in BOOLEAN : LoadCode(l, f)
  \/ \E l \in loads, fs \in SUBSET Owners : LoadConfigs(l, fs)
  \/ LoadOrphanEnds

SpecApp == InitApp /\ [][NextApp]_vars

\* the App with the address field edited from one Safe to another; every read
\* is answered
InitAddr == InitApp /\ safeAddr = "SA"

NextAddr ==
  \/ \E c \in {"X", "Y"} : NetworkDetected(c)
  \/ \E a \in {"SA", "SB"} : SetSafeAddr(a)
  \/ \E p \in passes : PassValidated(p, FALSE)
  \/ \E p \in passes : PassFactoryCode(p)
  \/ \E p \in passes : PassPredicted(p)
  \/ \E p \in passes : PassCodeExists(p)
  \/ \E p \in passes : PassCheckEnabled(p)
  \/ \E l \in loads : LoadOwners(l, FALSE)
  \/ \E l \in loads : LoadCode(l, FALSE)
  \/ \E l \in loads : LoadConfigs(l, {})
  \/ LoadOrphanEnds

SpecAddr == InitAddr /\ [][NextAddr]_vars

\* the awaited reads of the passes and of the row loads return in the end
AppContinues ==
  \/ \E p \in passes, f \in BOOLEAN : PassValidated(p, f)
  \/ \E p \in passes : PassFactoryCode(p)
  \/ \E p \in passes : PassPredicted(p)
  \/ \E p \in passes : PassCodeExists(p)
  \/ \E p \in passes : PassCheckEnabled(p)
  \/ \E p \in passes, n \in BOOLEAN : PassThrows(p, n)
  \/ \E l \in loads, f \in BOOLEAN : LoadOwners(l, f)
  \/ \E l \in loads, f \in BOOLEAN : LoadCode(l, f)
  \/ \E l \in loads, fs \in SUBSET Owners : LoadConfigs(l, fs)
  \/ LoadOrphanEnds

\* the App with every started read answered; the user and the wallet are free
\* to do nothing more
SpecAppFair == SpecApp /\ WF_vars(AppContinues)

----------------------------------------------------------------------------
(* OwnersView: the two clocks and the chain-timestamp poll *)

ClockFrame ==
  /\ lastStep' = "none"
  /\ UNCHANGED <<appVars, instVars, nEvents, staleLoad>>
  /\ UNCHANGED <<viewInst, rows, signerAddr, busyByOwner, signerReads, loads, isSafeApp>>
  /\ UNCHANGED <<walletAccount, cfg, modules, ownerList, pureVars, actVars>>

\* the browser's wall clock advances by a second
WallClockAdvance ==
  /\ wallClock < MaxTime
  /\ wallClock' = wallClock + 1
  /\ UNCHANGED <<nowSec, chainTs, pollTimers, pollReads, chainTime>>
  /\ ClockFrame

\* the 1 s interval: setNowSec(Math.floor(Date.now() / 1000)), then the poll effect
Tick ==
  /\ viewInst = 1
  /\ nowSec # wallClock
  /\ nowSec' = wallClock
  /\ RunPollEffect(rows, wallClock, chainTs)
  /\ UNCHANGED <<chainTs, chainTime, wallClock>>
  /\ ClockFrame

\* a new block is mined
ChainAdvance ==
  /\ chainTime < MaxTime
  /\ chainTime' = chainTime + 1
  /\ UNCHANGED <<nowSec, chainTs, pollTimers, pollReads, wallClock>>
  /\ ClockFrame

\* the 5 s interval of the poll effect fires: refreshChainTs() up to its await
PollFire ==
  /\ viewInst = 1
  /\ pollTimers > 0
  /\ chainTime \notin pollReads
  /\ pollReads' = pollReads \cup {chainTime}
  /\ UNCHANGED <<nowSec, chainTs, pollTimers, chainTime, wallClock>>
  /\ ClockFrame

\* getBlock("latest") returns a block with timestamp t: setChainTs(t) when
\* t > 0, then the poll effect
PollReadOk(t) ==
  /\ t \in pollReads
  /\ LET cts == IF t > 0 THEN t ELSE chainTs
         e   == pollEffect(needsSync(rows, nowSec, chainTs),
                           needsSync(rows, nowSec, cts), pollTimers)
     IN /\ chainTs' = cts
        /\ pollTimers' = e.timers
        /\ pollReads' = IF e.kick THEN (pollReads \ {t}) \cup {chainTime}
                        ELSE pollReads \ {t}
  /\ UNCHANGED <<nowSec, chainTime, wallClock>>
  /\ ClockFrame

\* getBlock("latest") throws: ignored
PollReadFail(t) ==
  /\ t \in pollReads
  /\ pollReads' = pollReads \ {t}
  /\ UNCHANGED <<nowSec, chainTs, pollTimers, chainTime, wallClock>>
  /\ ClockFrame

----------------------------------------------------------------------------
(* safeHelpers: computePrevOwner called on its own with an owner list and an *)
(* address, in any spelling                                                  *)

Spellings == {"Oa", "oa", "Ob", "ob", "Oc", "oc", "Ha", "ha"}

\* owner lists as a Safe returns them: no address twice
OwnerLists ==
  UNION {{l \in [1..n -> {"Oa", "Ob", "Oc", "Ha", "oc"}] :
            \A i, j \in 1..n : i # j => toLowerCase(l[i]) # toLowerCase(l[j])} : n \in 0..MaxOwners}

InitPrevOwner ==
  /\ InitUnmounted /\ InitQuiet
  /\ arg \in [owners : OwnerLists, owner : Spellings]
  /\ res = <<>> /\ loc = <<>>

\* computePrevOwner(provider, safe, arg.owner) returns or throws
CallComputePrevOwner ==
  /\ res = <<>>
  /\ res' = <<computePrevOwner(arg.owners, arg.owner)>>
  /\ UNCHANGED <<appVars, viewVars, instVars, actVars, envVars, histVars, arg, loc>>

NextPrevOwner == CallComputePrevOwner

SpecPrevOwner == InitPrevOwner /\ [][NextPrevOwner]_vars

----------------------------------------------------------------------------
(* isModuleEnabled taken on its own: the pagination loop over a Safe's     *)
(* module mapping.  The Safe keeps its modules as a linked mapping         *)
(* modules[a] = the module after a, starting and ending at SENTINEL; a     *)
(* mapping whose chain never comes back to SENTINEL is a broken one.       *)

\* const PAGE = 50n, scaled down
PAGE == 2

PagedModules == {<<"MA", "MB", "MC", "MD", "ME">>[i] : i \in 1..MaxModules}

\* the Safe's storage: modules[a], the zero address where nothing is stored
link(links, a) == IF a \in DOMAIN links THEN links[a] ELSE ZeroAddress

RECURSIVE walk(_, _, _)
\* the modules a page collects from `cur` on, at most k of them
walk(links, cur, k) ==
  IF cur \in {ZeroAddress, SENTINEL} \/ k = 0 THEN <<>>
  ELSE <<cur>> \o walk(links, link(links, cur), k - 1)

\* getModulesPaginated(start, pageSize) of the Safe: [array, next], or a revert.
\* Safe 1.3.0 gives the next stored module as next; Safe 1.4.1 gives the last
\* module of the page unless the walk ended at SENTINEL, and reverts (GS105)
\* for a start that is neither SENTINEL nor a stored module
getModulesPaginated(links, version, start, pageSize) ==
  LET array == walk(links, link(links, start), pageSize)
      cur   == IF array = <<>> THEN link(links, start)
               ELSE link(links, array[Len(array)])
  IN IF version = "1.3.0" THEN [ok |-> TRUE, array |-> array, next |-> cur]
     ELSE IF start # SENTINEL /\ link(links, start) = ZeroAddress
       THEN [ok |-> FALSE, array |-> <<>>, next |-> ZeroAddress]
     ELSE IF cur = SENTINEL THEN [ok |-> TRUE, array |-> array, next |-> SENTINEL]
     ELSE IF array = <<>> THEN [ok |-> FALSE, array |-> <<>>, next |-> ZeroAddress]
     ELSE [ok |-> TRUE, array |-> array, next |-> array[Len(array)]]

\* a comparison that takes the spelling as it is
someExact(mods, module) == \E i \in 1..Len(mods) : mods[i] = module

\* mods.some((m) => m.toLowerCase() === module.toLowerCase())
some(mods, module) == \E i \in 1..Len(mods) : toLowerCase(mods[i]) = toLowerCase(module)

InitModules ==
  /\ InitUnmounted /\ InitQuiet
  /\ arg \in [links : [{SENTINEL} \cup PagedModules -> {ZeroAddress, SENTINEL} \cup PagedModules],
              version : {"1.3.0", "1.4.1"},
              module : {"MA", "ma", "MB", "MX"}]
  /\ res = <<>>
  /\ loc = [cursor |-> SENTINEL, calls |-> 0]

\* one turn of while (true): await c.getModulesPaginated(cursor, PAGE) returns
\* or throws; return true, return false, or cursor = next
PageTurn ==
  /\ res = <<>>
  /\ LET page == getModulesPaginated(arg.links, arg.version, loc.cursor, PAGE)
         calls == IF loc.calls < MaxCalls THEN loc.calls + 1 ELSE loc.calls
     IN IF ~page.ok
          THEN res' = <<"threw">> /\ loc' = [loc EXCEPT !.calls = calls]
        ELSE IF some(page.array, arg.module)
          THEN res' = <<"true">> /\ loc' = [loc EXCEPT !.calls = calls]
        ELSE IF page.next = SENTINEL \/ Len(page.array) = 0
          THEN res' = <<"false">> /\ loc' = [loc EXCEPT !.calls = calls]
        ELSE res' = res /\ loc' = [cursor |-> page.next, calls |-> calls]
  /\ UNCHANGED <<appVars, viewVars, instVars, actVars, envVars, histVars, arg>>

NextModules == PageTurn

SpecModules == InitModules /\ [][NextModules]_vars

\* the provider answers every call in the end
SpecModulesFair == SpecModules /\ WF_vars(PageTurn)

----------------------------------------------------------------------------
(* validateSafeOnChain taken on its own, over every answer of its reads *)

InitValidate ==
  /\ InitUnmounted /\ InitQuiet
  /\ arg \in [addr : {"bad", "SA"}, hasCode : BOOLEAN, owners : OwnerLists, th : 0..2,
              readFails : BOOLEAN]
  /\ res = <<>> /\ loc = <<>>

\* await validateSafeOnChain(provider, arg.addr) returns
CallValidate ==
  /\ res = <<>>
  /\ res' = <<safeValidation(arg.addr, arg.hasCode, arg.owners, arg.th, arg.readFails)>>
  /\ UNCHANGED <<appVars, viewVars, instVars, actVars, envVars, histVars, arg, loc>>

NextValidate == CallValidate

SpecValidate == InitValidate /\ [][NextValidate]_vars

----------------------------------------------------------------------------
(* components/OwnersView.tsx with chainOffset: one row with activation time   *)
(* arg.target under the 1 s tick and the 30 s refreshOffset of that component *)

\* loc.chainOffset: useState chainOffset; loc.reads: the block timestamps that
\* the getBlock("latest") calls in flight will answer with
InitOffset ==
  /\ InitUnmounted /\ InitQuiet
  /\ arg \in [target : 0..MaxTime + 1]
  /\ res = <<>>
  /\ loc = [chainOffset |-> 0, reads |-> {}]

OffsetFrame(what) ==
  /\ lastStep' = what
  /\ UNCHANGED <<appVars, instVars, actVars, envVars, nEvents, staleLoad, arg, res>>
  /\ UNCHANGED <<viewInst, rows, signerAddr, busyByOwner, chainTs, pollTimers, pollReads,
                 signerReads, loads, isSafeApp>>

\* setInterval(() => setNowSec(Math.floor(Date.now() / 1000)), 1000)
OffsetTick ==
  /\ nowSec # wallClock
  /\ nowSec' = wallClock
  /\ UNCHANGED loc
  /\ OffsetFrame("none")

\* refreshOffset() on mount and every 30 s, up to its await
RefreshOffsetFire ==
  /\ chainTime \notin loc.reads
  /\ loc' = [loc EXCEPT !.reads = @ \cup {chainTime}]
  /\ UNCHANGED nowSec
  /\ OffsetFrame("none")

\* getBlock("latest") returns a block with timestamp t:
\* setChainOffset(chainTs - localTs) with localTs read at that moment
RefreshOffsetOk(t) ==
  /\ t \in loc.reads
  /\ loc' = [chainOffset |-> t - wallClock, reads |-> loc.reads \ {t}]
  /\ UNCHANGED nowSec
  /\ OffsetFrame("none")

\* getBlock("latest") throws: ignored
RefreshOffsetFail(t) ==
  /\ t \in loc.reads
  /\ loc' = [loc EXCEPT !.reads = @ \ {t}]
  /\ UNCHANGED nowSec
  /\ OffsetFrame("ignored")

\* const refSec = nowSec + chainOffset
refSec == nowSec + loc.chainOffset

\* the inline Countdown of that component ticks while diff > 0
cdFuture(target) == target # 0 /\ target - refSec > 0

NextOffset ==
  \/ WallClockAdvance
  \/ ChainAdvance
  \/ OffsetTick
  \/ RefreshOffsetFire
  \/ \E t \in 0..MaxTime + 1 : RefreshOffsetOk(t)
  \/ \E t \in 0..MaxTime + 1 : RefreshOffsetFail(t)

SpecOffset == InitOffset /\ [][NextOffset]_vars

----------------------------------------------------------------------------
(* components/Countdown.tsx taken on its own *)

Floor(a, b) == a \div b

NoCountdown == [rendered |-> FALSE, days |-> 0, hours |-> 0, mins |-> 0, secs |-> 0,
                units |-> <<>>]

\* a countdown that always shows its hours
showHoursAlways(days, hours) == TRUE

\* const showHours = showDays || hours > 0
showHours(days, hours) == days > 0 \/ hours > 0

\* Countdown({ target, refSec }): null, or the units it renders
Countdown(target, ref) ==
  IF target = 0 THEN NoCountdown
  ELSE LET total == target - ref
       IN IF total <= 0 THEN NoCountdown
          ELSE LET days  == Floor(total, 86400)
                   t1    == total - days * 86400
                   hours == Floor(t1, 3600)
                   t2    == t1 - hours * 3600
                   mins  == Floor(t2, 60)
                   secs  == t2 - mins * 60
               IN [rendered |-> TRUE, days |-> days, hours |-> hours, mins |-> mins,
                   secs |-> secs,
                   units |-> (IF days > 0 THEN <<"d">> ELSE <<>>)
                             \o (IF showHours(days, hours) THEN <<"h">> ELSE <<>>)
                             \o <<"m", "s">>]

\* activation times and reference times around every unit boundary
Targets ==
  {0} \cup {d * 86400 + h * 3600 + m * 60 + x :
              d \in 0..MaxDays, h \in {0, 1, 23}, m \in {0, 1, 59}, x \in {0, 1, 59}}
Refs == {0, 1, 60, 3600, 86400}

InitCountdown ==
  /\ InitUnmounted /\ InitQuiet
  /\ arg \in [target : Targets, refSec : Refs]
  /\ res = <<>> /\ loc = <<>>

\* <Countdown target={r.ts} refSec={nowSec} /> renders
RenderCountdown ==
  /\ res = <<>>
  /\ res' = <<Countdown(arg.target, arg.refSec)>>
  /\ UNCHANGED <<appVars, viewVars, instVars, actVars, envVars, histVars, arg, loc>>

NextCountdown == RenderCountdown

SpecCountdown == InitCountdown /\ [][NextCountdown]_vars

----------------------------------------------------------------------------
(* One mounted OwnersView of a validated Safe, its clocks and its wallet *)

Configs ==
  {c \in [Accounts -> [beneficiary : {ZeroAddress, "Ha"}, ts : 0..MaxTime]] :
     /\ c["Ob"] = [beneficiary |-> "Ha", ts |-> 1]
     /\ c["Oc"] = [beneficiary |-> ZeroAddress, ts |-> 0]
     /\ c["Ha"] = [beneficiary |-> ZeroAddress, ts |-> 0]
     /\ (c["Oa"].beneficiary = ZeroAddress => c["Oa"].ts = 0)}

\* the first render of an OwnersView of Safe SA on chain X, mounted by an App
\* whose install state is the given one, with the wallet on account w
InitMounted(p, d, e, w) ==
  /\ InitCommon
  /\ scope = 1
  /\ chainId = "X"
  /\ safeAddr = "SA"
  /\ safeCheck = Ok(getOwners("X", "SA"), getThreshold("X", "SA"))
  /\ predicted = p /\ deployed = d /\ enabled = e
  /\ status = "" /\ passes = {}
  /\ walletAccount = w
  /\ chainTime = 1 /\ wallClock = 0
  /\ cfg \in Configs
  /\ viewInst = 1 /\ rows = <<>> /\ signerAddr = "" /\ busyByOwner = {}
  /\ nowSec = wallClock /\ chainTs = 0 /\ pollTimers = 0 /\ pollReads = {}
  /\ signerReads = {walletAccount}
  /\ loads = loadStart(safeAddr, predicted)

InitView ==
  /\ isSafeApp \in BOOLEAN
  /\ \/ InitMounted("", Null, Null, "Oa")
     \/ InitMounted("MA", "true", "true", "Oa")

NextView ==
  \/ WallClockAdvance
  \/ Tick
  \/ ChainAdvance
  \/ PollFire
  \/ \E t \in 0..MaxTime : PollReadOk(t)
  \/ \E t \in 0..MaxTime : PollReadFail(t)
  \/ \E l \in loads, f \in BOOLEAN : LoadOwners(l, f)
  \/ \E l \in loads, f \in BOOLEAN : LoadCode(l, f)
  \/ \E l \in loads, fs \in SUBSET Owners : LoadConfigs(l, fs)
  \/ LoadOrphanEnds
  \/ \E a \in {"Oa", "Ha"} : AccountsChanged(a)
  \/ \E a \in Accounts, f \in BOOLEAN : SignerRead(a, f)
  \/ \E c \in Chains : ChainChanged(c)

SpecView == InitView /\ [][NextView]_vars

\* a mounted view whose wallet switches accounts; every read is answered
InitSigner == isSafeApp = FALSE /\ InitMounted("MA", "true", "true", "Oa")

NextSigner ==
  \/ \E a \in {"Oa", "Ha"} : AccountsChanged(a)
  \/ \E a \in Accounts : SignerRead(a, FALSE)
  \/ \E l \in loads : LoadOwners(l, FALSE)
  \/ \E l \in loads : LoadCode(l, FALSE)
  \/ \E l \in loads : LoadConfigs(l, {})

SpecSigner == InitSigner /\ [][NextSigner]_vars

----------------------------------------------------------------------------
(* The chain-timestamp poll of a view whose module is installed, with the *)
(* beneficiary connected                                                   *)

InitPoll ==
  /\ isSafeApp = FALSE
  /\ InitMounted("MA", "true", "true", "Ha")

NextPoll ==
  \/ WallClockAdvance
  \/ Tick
  \/ ChainAdvance
  \/ PollFire
  \/ \E t \in 0..MaxTime : PollReadOk(t)
  \/ \E t \in 0..MaxTime : PollReadFail(t)
  \/ \E l \in loads, f \in BOOLEAN : LoadOwners(l, f)
  \/ \E l \in loads, f \in BOOLEAN : LoadCode(l, f)
  \/ \E l \in loads, fs \in SUBSET Owners : LoadConfigs(l, fs)
  \/ LoadOrphanEnds
  \/ \E a \in Accounts, f \in BOOLEAN : SignerRead(a, f)
  \/ \E c \in Chains : ChainChanged(c)

\* the interval timer fires while it is set, blocks keep being produced, and a
\* read of the latest block that is retried again and again succeeds eventually
SpecPollFair ==
  /\ InitPoll /\ [][NextPoll]_vars
  /\ WF_vars(ChainAdvance)
  /\ WF_vars(PollFire)
  /\ \A t \in 1..MaxTime : SF_vars(PollReadOk(t))

----------------------------------------------------------------------------
(* InstallModule: the enable flows of both generations of the component *)

\* an owner check that lets every caller through
isOwnerSkipped(owners, a) == TRUE

\* owners.some(o => o.toLowerCase() === owner.toLowerCase())
isOwner(owners, a) == \E i \in 1..Len(owners) : toLowerCase(owners[i]) = toLowerCase(a)

\* a signature made by signing the Safe transaction hash as a message
signedHashSigFor(owner) == <<"r", "s", 27>>

\* prevalidatedSigFor(owner): r = owner, s = 0, v = 1
prevalidatedSigFor(owner) == <<owner, 0, 1>>

\* busy of the mounted instance
busy == \E f \in flows : f.live

\* the enable button: rendered when isDeployed, disabled while busy
CanClickEnable ==
  InstallMounted(St, safeAddr, chainId) /\ deployed = "true" /\ ~busy

\* a flow started by a click, holding the props of the render it was started in
NewFlow(kind, pc) ==
  [live |-> TRUE, kind |-> kind, pc |-> pc, safe |-> safeAddr, chain |-> chainId,
   module |-> predicted, from |-> "", owners |-> <<>>, wait |-> 0]

\* execTransaction(to = safe, data = enableModule(module), ..., signatures)
\* handed to the wallet of account `from`
ExecTx(f, from) ==
  [kind |-> "execTransaction", from |-> from, to |-> f.safe, chain |-> chainId,
   call |-> "enableModule(address)", param |-> f.module,
   signatures |-> prevalidatedSigFor(from)]

\* sdk.txs.send({to: safeAddr, data: enableModule(predictedModule)}): a
\* transaction proposed inside the Safe
SdkTx(f) ==
  [kind |-> "sdk.txs.send", from |-> f.safe, to |-> f.safe, chain |-> chainId,
   call |-> "enableModule(address)", param |-> f.module, signatures |-> <<>>]

\* the instructions shown instead of a submission
InstructionPayload(sa, m) ==
  <<"Enable requires a Safe transaction:", sa, "enableModule(address)", m>>

ThresholdNote == "Enable requires threshold = 1 (use Safe UI for multisig)."
OwnerNote     == "Connect an owner wallet to enable the module."

\* what the preflight eth_call can answer: a result (code ""), or an error with
\* its code and its reason ("null": no reason decoded)
CallOk == [code |-> "", reason |-> ""]
PreflightOutcomes ==
  {CallOk} \cup [code : {"CALL_EXCEPTION"},
                 reason : {"null", "missing revert data", "GS025", "GS026"}]
           \cup {[code |-> "TIMEOUT", reason |-> "null"]}

\* a predicate that lets every call exception pass
isCallException(e) == e.code = "CALL_EXCEPTION"

\* e?.code === "CALL_EXCEPTION" && (e?.reason == null || e?.reason === "missing revert data")
isCallExceptionMissingData(e) ==
  e.code = "CALL_EXCEPTION" /\ (e.reason = "null" \/ e.reason = "missing revert data")

\* the note of a preflight error that is not tolerated: the text written for
\* GS025 and GS026, else e.reason || e.message
preflightNote(e) == IF e.reason = "null" THEN e.code ELSE e.reason

\* the answer of the preflight call, as a record of what has happened
preflightMark(e) ==
  CASE e = CallOk -> "preflight ok"
    [] e.code = "CALL_EXCEPTION" /\ e.reason = "null" -> "preflight no reason"
    [] e.code = "CALL_EXCEPTION" /\ e.reason = "missing revert data" -> "preflight missing data"
    [] e.code = "CALL_EXCEPTION" /\ e.reason = "GS025" -> "preflight GS025"
    [] e.code = "CALL_EXCEPTION" /\ e.reason = "GS026" -> "preflight GS026"
    [] OTHER -> "preflight other error"

\* what a continuation of a flow leaves alone; `what` records what it decided
FlowStep(what) ==
  /\ lastStep' = what
  /\ UNCHANGED <<appVars, viewVars, actVars, walletAccount, chainTime, wallClock, cfg,
                 ownerList, pureVars, nEvents, staleLoad>>

FlowFrame == FlowStep("none")

\* the flow has read a threshold above 1 in an instance that is still mounted
AboveOne(f, ok, threshold) ==
  IF f.live /\ ok /\ threshold > 1 THEN "thresholdAbove1" ELSE "none"

\* flow f continues as `next`; nt and ins are what its setNote and
\* setInstructions leave in the instance, if that is still mounted
FlowContinues(f, next, nt, ins) ==
  /\ flows' = (flows \ {f}) \cup next
  /\ note' = IF f.live THEN nt ELSE note
  /\ instructions' = IF f.live THEN ins ELSE instructions

\* flow f throws: enable() and deploy() show the message as their note,
\* enableStandaloneSmart() as its instructions, enableInsideSafeOnly() has no catch
FlowThrows(f, msg) ==
  CASE f.kind \in {"enable", "deploy"} -> FlowContinues(f, {}, msg, instructions)
    [] f.kind = "enableStandaloneSmart" -> FlowContinues(f, {}, note, <<msg>>)
    [] OTHER -> FlowContinues(f, {}, note, instructions)

\* enable() up to its first await
EnableClick ==
  /\ CanClickEnable /\ ~isSafeApp
  /\ nEvents < MaxEvents
  /\ flows' = flows \cup {NewFlow("enable", "validate")}
  /\ note' = ""
  /\ nEvents' = nEvents + 1
  /\ lastStep' = "none"
  /\ UNCHANGED <<instructions, txLog, modules>>
  /\ UNCHANGED <<appVars, viewVars, actVars, walletAccount, chainTime, wallClock, cfg,
                 ownerList, pureVars, staleLoad>>

\* await validateSafeOnChain(readProvider, safeAddr) returns; the threshold check
EnableValidated(f, readFails) ==
  /\ f \in flows /\ f.kind = "enable" /\ f.pc = "validate"
  /\ LET v == validateSafeOnChain(chainId, f.safe, readFails)
     IN IF ~v.ok THEN FlowThrows(f, "Not a Safe on this network")
        ELSE IF v.threshold # 1 THEN FlowThrows(f, ThresholdNote)
        ELSE FlowContinues(f, {[f EXCEPT !.pc = "getSigner", !.owners = v.owners]},
                           note, instructions)
  /\ UNCHANGED <<txLog, modules>>
  /\ FlowStep(LET v == validateSafeOnChain(chainId, f.safe, readFails)
              IN AboveOne(f, v.ok, v.threshold))

\* await bp.getSigner(), signer.getAddress() return; the owner check
EnableSigner(f, fails) ==
  /\ f \in flows /\ f.kind = "enable" /\ f.pc = "getSigner"
  /\ IF fails THEN FlowThrows(f, "No wallet detected")
     ELSE IF ~isOwner(f.owners, walletAccount) THEN FlowThrows(f, OwnerNote)
     ELSE FlowContinues(f, {[f EXCEPT !.pc = "preflight", !.from = walletAccount]},
                        note, instructions)
  /\ UNCHANGED <<txLog, modules>>
  /\ FlowFrame

\* the preflight eth_call returns or throws; only missing revert data is
\* tolerated; then signer.sendTransaction hands the transaction to the wallet
EnablePreflight(f, outcome) ==
  /\ f \in flows /\ f.kind = "enable" /\ f.pc = "preflight"
  /\ IF outcome = CallOk \/ isCallExceptionMissingData(outcome)
       THEN /\ FlowContinues(f, {[f EXCEPT !.pc = "sendTransaction"]},
                             "Enabling module", instructions)
            /\ txLog' = txLog \cup {ExecTx(f, f.from)}
     ELSE /\ FlowThrows(f, preflightNote(outcome))
          /\ UNCHANGED txLog
  /\ UNCHANGED modules
  /\ FlowStep(preflightMark(outcome))

\* deploy(): the deploy button is the same button, shown while not isDeployed
CanClickDeploy ==
  InstallMounted(St, safeAddr, chainId) /\ deployed = "false" /\ ~busy

\* deploy() up to its await of getSigner
DeployClick ==
  /\ CanClickDeploy /\ ~isSafeApp
  /\ nEvents < MaxEvents
  /\ flows' = flows \cup {NewFlow("deploy", "getSigner")}
  /\ note' = ""
  /\ nEvents' = nEvents + 1
  /\ lastStep' = "none"
  /\ UNCHANGED <<instructions, txLog, modules>>
  /\ UNCHANGED <<appVars, viewVars, actVars, walletAccount, chainTime, wallClock, cfg,
                 ownerList, pureVars, staleLoad>>

\* the method deploy() ends up calling: deployFor(safe), createFor(safe) and
\* deploy(safe) are tried in turn, each with the Safe address as its only
\* argument; "" when every attempt throws
DeployMethod(abi) ==
  IF hasFragment(abi, "deployFor", 1) THEN "deployFor"
  ELSE IF hasFragment(abi, "createFor", 1) THEN "createFor"
  ELSE IF hasFragment(abi, "deploy", 1) THEN "deploy"
  ELSE ""

NoDeployMethod == "Factory does not expose a known deploy method"

\* factory.<method>(safeAddr) handed to the wallet of account `from`
DeployTx(f, from, method) ==
  [kind |-> "deploy", from |-> from, to |-> normalizedFactory(f.chain), chain |-> chainId,
   call |-> method, param |-> f.safe, signatures |-> <<>>]

\* await bp.getSigner() returns or throws; then the deploy method is chosen and
\* called
DeploySigner(f, fails) ==
  /\ f \in flows /\ f.kind = "deploy" /\ f.pc = "getSigner"
  /\ IF fails
       THEN FlowThrows(f, "No wallet detected") /\ UNCHANGED txLog
     ELSE IF DeployMethod(FactoryABI) = ""
       THEN FlowThrows(f, NoDeployMethod) /\ UNCHANGED txLog
     ELSE /\ FlowContinues(f, {[f EXCEPT !.pc = "deploySent", !.from = walletAccount]},
                           note, instructions)
          /\ txLog' = txLog \cup {DeployTx(f, walletAccount, DeployMethod(FactoryABI))}
  /\ UNCHANGED modules
  /\ FlowStep(IF fails THEN "none" ELSE "deploySigner")

\* enableStandaloneSmart() up to its first await
SmartClick ==
  /\ CanClickEnable /\ ~isSafeApp
  /\ nEvents < MaxEvents
  /\ flows' = flows \cup {NewFlow("enableStandaloneSmart", "getSigner")}
  /\ instructions' = <<>>
  /\ nEvents' = nEvents + 1
  /\ lastStep' = "none"
  /\ UNCHANGED <<note, txLog, modules>>
  /\ UNCHANGED <<appVars, viewVars, actVars, walletAccount, chainTime, wallClock, cfg,
                 ownerList, pureVars, staleLoad>>

\* await browser.getSigner(), signer.getAddress() return
SmartSigner(f, fails) ==
  /\ f \in flows /\ f.kind = "enableStandaloneSmart" /\ f.pc = "getSigner"
  /\ IF fails THEN FlowThrows(f, "No wallet detected")
     ELSE FlowContinues(f, {[f EXCEPT !.pc = "readSafe", !.from = walletAccount]},
                        note, instructions)
  /\ UNCHANGED <<txLog, modules>>
  /\ FlowFrame

\* await Promise.all([safe.getOwners(), safe.getThreshold()]) returns: the
\* transaction is sent when threshold === 1n && isOwner, the instructions are
\* shown otherwise
SmartRead(f, fails) ==
  /\ f \in flows /\ f.kind = "enableStandaloneSmart" /\ f.pc = "readSafe"
  /\ LET owners    == getOwners(chainId, f.safe)
         threshold == getThreshold(chainId, f.safe)
     IN IF fails \/ owners = <<>>
          THEN FlowThrows(f, "call failed") /\ UNCHANGED txLog
        ELSE IF threshold = 1 /\ isOwner(owners, f.from)
          THEN /\ FlowContinues(f, {[f EXCEPT !.pc = "sendTransaction", !.owners = owners]},
                                note, instructions)
               /\ txLog' = txLog \cup {ExecTx(f, f.from)}
        ELSE /\ FlowContinues(f, {}, note, InstructionPayload(f.safe, f.module))
             /\ UNCHANGED txLog
  /\ UNCHANGED modules
  /\ FlowStep(AboveOne(f, ~fails /\ getOwners(chainId, f.safe) # <<>>,
                       getThreshold(chainId, f.safe)))

\* the wallet returns the transaction hash, or the user rejects
FlowSent(f, rejected) ==
  /\ f \in flows /\ f.pc = "sendTransaction"
  /\ IF rejected THEN FlowThrows(f, "user rejected")
     ELSE FlowContinues(f, {[f EXCEPT !.pc = "wait"]}, note, instructions)
  /\ UNCHANGED <<txLog, modules>>
  /\ FlowFrame

\* await onChanged?.(): bumpScope(); await refreshInstallState(), with the
\* closure of the render the flow was started in
OnChanged(f, nt) ==
  LET sc == bumpScope(scope)
      r  == refreshStart(St, sc, f.safe, f.chain)
      nf == [f EXCEPT !.pc = "onChanged", !.wait = sc]
  IN /\ Cardinality(passes \cup r.pass) <= MaxPasses
     /\ scope' = sc
     /\ passes' = passes \cup r.pass
     /\ Commit(r.st)
     /\ ViewRerender(r.st, safeAddr, chainId)
     /\ InstallRerender(r.st, safeAddr, chainId, (flows \ {f}) \cup {nf},
                        IF f.live THEN nt ELSE note, instructions)
     /\ lastStep' = "onChanged"
     /\ UNCHANGED <<chainId, safeAddr, isSafeApp, txLog, walletAccount, chainTime,
                    wallClock, cfg, ownerList, pureVars, nEvents, staleLoad>>

\* the Safe executes execTransaction with a pre-validated signature only for a
\* sender that is an owner, with threshold 1
ExecSucceeds(f) ==
  getThreshold(chainId, f.safe) = 1 /\ isOwner(getOwners(chainId, f.safe), f.from)

\* await tx.wait() returns (the module is enabled in the Safe) or throws
FlowMined(f, reverted) ==
  /\ f \in flows /\ f.pc = "wait"
  /\ IF reverted \/ ~ExecSucceeds(f)
       THEN /\ FlowThrows(f, "transaction reverted")
            /\ UNCHANGED <<txLog, modules>>
            /\ FlowFrame
     ELSE /\ modules' = modules \cup {<<chainId, f.safe, f.module>>}
          /\ OnChanged(f, IF f.kind = "enable" THEN "Module enabled" ELSE note)

\* the refreshInstallState awaited by onChanged has returned: finally, setBusy
FlowOnChangedDone(f) ==
  /\ f \in flows /\ f.pc = "onChanged"
  /\ \A p \in passes : p.myScope # f.wait
  /\ FlowContinues(f, {}, note, instructions)
  /\ UNCHANGED <<txLog, modules>>
  /\ FlowFrame

\* enableInsideSafeOnly() up to its await of sdk.txs.send
InsideSafeClick ==
  /\ CanClickEnable /\ isSafeApp
  /\ nEvents < MaxEvents
  /\ LET f == NewFlow("enableInsideSafeOnly", "sdkSend")
     IN /\ flows' = flows \cup {f}
        /\ txLog' = txLog \cup {SdkTx(f)}
  /\ nEvents' = nEvents + 1
  /\ lastStep' = "none"
  /\ UNCHANGED <<note, instructions, modules>>
  /\ UNCHANGED <<appVars, viewVars, actVars, walletAccount, chainTime, wallClock, cfg,
                 ownerList, pureVars, staleLoad>>

\* sdk.txs.send returns or throws
InsideSafeSent(f, rejected) ==
  /\ f \in flows /\ f.pc = "sdkSend"
  /\ IF rejected
       THEN /\ FlowThrows(f, "rejected")
            /\ UNCHANGED <<txLog, modules>>
            /\ FlowFrame
     ELSE /\ UNCHANGED modules
          /\ OnChanged(f, note)

----------------------------------------------------------------------------
(* An App showing InstallModule for a Safe whose module is not enabled,     *)
(* deployed or not.  The wallet stays on its network while a flow runs; its *)
(* account may change at any time.                                          *)

InitInstall ==
  /\ InitCommon
  /\ scope = 1
  /\ \E t \in {<<"X", "SB">>, <<"Y", "SB">>, <<"Y", "SA">>} :
       /\ chainId = t[1]
       /\ safeAddr = t[2]
       /\ predicted = predictModuleForSafe(t[1], normalizedFactory(t[1]), t[2])
       /\ deployed = B(getCode(t[1], predictModuleForSafe(t[1], normalizedFactory(t[1]), t[2])))
  /\ safeCheck = Ok(getOwners(chainId, safeAddr), getThreshold(chainId, safeAddr))
  /\ enabled = "false"
  /\ status = IF deployed = "true" THEN "Module deployed, not enabled"
              ELSE "Module not deployed"
  /\ passes = {}
  /\ isSafeApp \in BOOLEAN
  /\ walletAccount \in {"Oa", "Ha"}
  /\ chainTime = 1 /\ wallClock = 0
  /\ cfg = DefaultCfg
  /\ viewInst = 1
  /\ rows = baseRows(getOwners(chainId, safeAddr))
  /\ signerAddr = walletAccount /\ busyByOwner = {}
  /\ nowSec = wallClock /\ chainTs = 0 /\ pollTimers = 0 /\ pollReads = {}
  /\ signerReads = {} /\ loads = {}

NextInstall ==
  \/ DeployClick
  \/ \E f \in flows, b \in BOOLEAN : DeploySigner(f, b)
  \/ EnableClick
  \/ \E f \in flows, b \in BOOLEAN : EnableValidated(f, b)
  \/ \E f \in flows, b \in BOOLEAN : EnableSigner(f, b)
  \/ \E f \in flows, o \in PreflightOutcomes : EnablePreflight(f, o)
  \/ SmartClick
  \/ \E f \in flows, b \in BOOLEAN : SmartSigner(f, b)
  \/ \E f \in flows, b \in BOOLEAN : SmartRead(f, b)
  \/ \E f \in flows, b \in BOOLEAN : FlowSent(f, b)
  \/ \E f \in flows, b \in BOOLEAN : FlowMined(f, b)
  \/ \E f \in flows : FlowOnChangedDone(f)
  \/ InsideSafeClick
  \/ \E f \in flows, b \in BOOLEAN : InsideSafeSent(f, b)
  \/ \E a \in {"Oa", "Ha"} : AccountsChanged(a)
  \/ \E p \in passes, f \in BOOLEAN : PassValidated(p, f)
  \/ \E p \in passes : PassFactoryCode(p)
  \/ \E p \in passes : PassPredicted(p)
  \/ \E p \in passes : PassCodeExists(p)
  \/ \E p \in passes : PassCheckEnabled(p)
  \/ \E p \in passes, n \in BOOLEAN : PassThrows(p, n)

SpecInstall == InitInstall /\ [][NextInstall]_vars

\* the wallet changes its network while the install controls are shown, passes
\* run, the user deploys and enables on either network
NextEpoch ==
  \/ \E c \in {"X", "Y"} : ChainChanged(c)
  \/ \E p \in passes : PassValidated(p, FALSE)
  \/ \E p \in passes : PassFactoryCode(p)
  \/ \E p \in passes : PassPredicted(p)
  \/ \E p \in passes : PassCodeExists(p)
  \/ \E p \in passes : PassCheckEnabled(p)
  \/ DeployClick
  \/ \E f \in flows : DeploySigner(f, FALSE)
  \/ EnableClick
  \/ \E f \in flows : EnableValidated(f, FALSE)
  \/ \E f \in flows : EnableSigner(f, FALSE)
  \/ \E f \in flows : EnablePreflight(f, CallOk)
  \/ \E f \in flows : FlowSent(f, FALSE)
  \/ \E f \in flows, b \in BOOLEAN : FlowMined(f, b)
  \/ \E f \in flows : FlowOnChangedDone(f)
  \/ InsideSafeClick
  \/ \E f \in flows : InsideSafeSent(f, FALSE)
  \/ \E l \in loads : LoadOwners(l, FALSE)
  \/ \E l \in loads : LoadCode(l, FALSE)
  \/ \E l \in loads : LoadConfigs(l, {})
  \/ LoadOrphanEnds

SpecEpoch == InitInstall /\ [][NextEpoch]_vars

----------------------------------------------------------------------------
(* OwnersView: the row actions doSet, doProlong, doRemove, doClaim.  An     *)
(* entry of txLog is a call handed to the wallet's signer (one signature    *)
(* prompt); the module contract itself lives outside this repository        *)

\* what an action step leaves alone
ActFrame(what) ==
  /\ lastStep' = what
  /\ UNCHANGED <<appVars, viewInst, rows, signerAddr, nowSec, chainTs, pollTimers, pollReads,
                 signerReads, isSafeApp, flows, instructions, note, walletAccount,
                 chainTime, wallClock, modules, pureVars, staleLoad>>

\* a call of one of the four handlers, up to its first await
NewAct(kind, owner, beneficiary, ts) ==
  [live |-> TRUE, id |-> nEvents + 1, kind |-> kind, pc |-> "getSigner", owner |-> owner,
   beneficiary |-> beneficiary, ts |-> ts, from |-> "", prev |-> "", n |-> 0,
   call |-> "", why |-> "", safe |-> safeAddr, module |-> predicted]

\* the call f hands to its signer: new ethers.Contract(moduleAddr, ABI, signer).call(args)
ActTx(f, from, call, args) ==
  [kind |-> call, act |-> f.kind, id |-> f.id, owner |-> f.owner, from |-> from,
   to |-> f.module, chain |-> chainId, args |-> args, at |-> wallClock, n |-> f.n + 1]

\* the Set and the Prolong button of a row: setEditing({mode, owner, ...})
EditOpen(r) ==
  /\ viewInst = 1 /\ r \in Range(rows)
  /\ ~disableRowActions(r)
  /\ editing' = [mode |-> IF r.beneficiary = ZeroAddress THEN "set" ELSE "prolong",
                 owner |-> r.owner]
  /\ UNCHANGED <<acts, toast, busyByOwner, loads, txLog, cfg, ownerList, nEvents>>
  /\ ActFrame("none")

\* the Cancel button of the editor: setEditing(null)
EditCancel ==
  /\ viewInst = 1 /\ editing # NoEdit
  /\ \E r \in Range(rows) : r.owner = editing.owner
  /\ editing' = NoEdit
  /\ UNCHANGED <<acts, toast, busyByOwner, loads, txLog, cfg, ownerList, nEvents>>
  /\ ActFrame("none")

\* the Save button is rendered in the editor of the row being edited and is
\* enabled by canWriteGlobally, the signer being the edited owner and a date
CanSave(mode) ==
  /\ viewInst = 1 /\ editing.mode = mode
  /\ \E r \in Range(rows) : r.owner = editing.owner
  /\ canWriteGlobally
  /\ signerAddr # "" /\ toLowerCase(signerAddr) = toLowerCase(editing.owner)
  /\ nEvents < MaxClicks

\* a handler starts: setBusyByOwner sets the key [owner], the call waits for getSigner
ActStarts(f) ==
  /\ acts' = acts \cup {f}
  /\ busyByOwner' = busyByOwner \cup {f.owner}
  /\ nEvents' = nEvents + 1
  /\ UNCHANGED <<toast, editing, loads, txLog, cfg, ownerList>>
  /\ ActFrame("none")

\* Save in "set" mode: doSet(editing.owner, editing.beneficiary, editing.dtLocal)
SaveSet(b, t) ==
  /\ CanSave("set")
  /\ isAddress(b)
  /\ ActStarts(NewAct("doSet", editing.owner, b, t))

\* Save in "prolong" mode: doProlong(editing.owner, editing.dtLocal)
SaveProlong(t) ==
  /\ CanSave("prolong")
  /\ ActStarts(NewAct("doProlong", editing.owner, "", t))

\* the Remove button: doRemove(r.owner); confirm() answered no returns at once
\* and the finally block writes busyByOwner[owner] = false
RemoveClick(r, confirmed) ==
  /\ viewInst = 1 /\ r \in Range(rows)
  /\ r.beneficiary # ZeroAddress
  /\ ~disableRowActions(r)
  /\ nEvents < MaxClicks
  /\ IF confirmed
       THEN ActStarts(NewAct("doRemove", r.owner, "", 0))
     ELSE /\ busyByOwner' = busyByOwner \ {r.owner}
          /\ nEvents' = nEvents + 1
          /\ UNCHANGED <<acts, toast, editing, loads, txLog, cfg, ownerList>>
          /\ ActFrame("none")

\* the Claim button: doClaim(r.owner)
ClaimClick(r) ==
  /\ viewInst = 1 /\ r \in Range(rows)
  /\ ClaimEnabled(r)
  /\ nEvents < MaxClicks
  /\ ActStarts(NewAct("doClaim", r.owner, "", 0))

\* catch: push(reason, "error"); finally: busyByOwner[owner] = false
ActThrows(f, msg, what) ==
  /\ acts' = acts \ {f}
  /\ toast' = IF f.live THEN msg ELSE toast
  /\ busyByOwner' = IF f.live THEN busyByOwner \ {f.owner} ELSE busyByOwner
  /\ UNCHANGED <<editing, loads, txLog, cfg, ownerList, nEvents>>
  /\ ActFrame(what)

\* the call goes to the signer and the handler waits for the wallet
ActSubmits(f, g, call, args, what) ==
  /\ txLog' = txLog \cup {ActTx(f, g.from, call, args)}
  /\ acts' = (acts \ {f}) \cup {[g EXCEPT !.pc = "sent", !.call = call, !.n = f.n + 1]}
  /\ UNCHANGED <<toast, editing, busyByOwner, loads, cfg, ownerList, nEvents>>
  /\ ActFrame(what)

\* a check that lets the current second pass
notInFutureLax(ts, now) == ts < now

\* ts <= Math.floor(Date.now() / 1000)
notInFuture(ts, now) == ts <= now

\* await bp.getSigner() and signer.getAddress() return in doSet: the caller, the
\* beneficiary and the activation time are checked, then setBeneficiary is called
SetSigner(f, fails) ==
  /\ f \in acts /\ f.kind = "doSet" /\ f.pc = "getSigner"
  /\ IF fails THEN ActThrows(f, "No signer", "none")
     ELSE IF toLowerCase(walletAccount) # toLowerCase(f.owner)
       THEN ActThrows(f, "Connect as owner", "none")
     ELSE IF ~isAddress(f.beneficiary)
       THEN ActThrows(f, "Invalid beneficiary", "none")
     ELSE IF notInFuture(f.ts, wallClock)
       THEN ActThrows(f, "Activation must be in the future", "none")
     ELSE ActSubmits(f, [f EXCEPT !.from = walletAccount], "setBeneficiary",
                     <<f.beneficiary, f.ts>>, "none")

\* the same continuation in doProlong: setActivationTime(ts)
ProlongSigner(f, fails) ==
  /\ f \in acts /\ f.kind = "doProlong" /\ f.pc = "getSigner"
  /\ IF fails THEN ActThrows(f, "No signer", "none")
     ELSE IF toLowerCase(walletAccount) # toLowerCase(f.owner)
       THEN ActThrows(f, "Connect as owner", "none")
     ELSE IF notInFuture(f.ts, wallClock)
       THEN ActThrows(f, "Activation must be in the future", "none")
     ELSE ActSubmits(f, [f EXCEPT !.from = walletAccount], "setActivationTime",
                     <<f.ts>>, "none")

\* the functions of HeirSafeModuleABI the actions look up by name
ModuleABI == {"heirConfigs", "setBeneficiary", "setActivationTime", "removeBeneficiary",
              "claimSafe"}

\* the same continuation in doRemove: mod.interface.getFunction("removeBeneficiary")
\* and mod.removeBeneficiary() stand in one try block
RemoveSigner(f, fails) ==
  /\ f \in acts /\ f.kind = "doRemove" /\ f.pc = "getSigner"
  /\ IF fails THEN ActThrows(f, "No signer", "none")
     ELSE IF toLowerCase(walletAccount) # toLowerCase(f.owner)
       THEN ActThrows(f, "Connect as owner", "none")
     ELSE IF "removeBeneficiary" \in ModuleABI
       THEN ActSubmits(f, [f EXCEPT !.from = walletAccount], "removeBeneficiary", <<>>,
                       "none")
     ELSE ActSubmits(f, [f EXCEPT !.from = walletAccount], "setBeneficiary",
                     <<ZeroAddress, 0>>, "none")

\* await bp.getSigner() returns in doClaim: no check of the caller; the read of
\* computePrevOwner starts
ClaimSigner(f, fails) ==
  /\ f \in acts /\ f.kind = "doClaim" /\ f.pc = "getSigner"
  /\ IF fails THEN ActThrows(f, "No signer", "none")
     ELSE /\ acts' = (acts \ {f}) \cup {[f EXCEPT !.pc = "prevOwner", !.from = walletAccount]}
          /\ UNCHANGED <<toast, editing, busyByOwner, loads, txLog, cfg, ownerList, nEvents>>
          /\ ActFrame("none")

\* await computePrevOwner(readProvider, safeAddr, owner) returns or throws; then
\* claimSafe.staticCall(owner, prev) is sent to the node
ClaimPrev(f, fails) ==
  /\ f \in acts /\ f.pc = "prevOwner"
  /\ LET p == computePrevOwner(getOwners(chainId, f.safe), f.owner)
     IN IF fails THEN ActThrows(f, "call failed", "none")
        ELSE IF ~p.ok THEN ActThrows(f, p.value, "none")
        ELSE /\ acts' = (acts \ {f}) \cup {[f EXCEPT !.pc = "dryRun", !.prev = p.value]}
             /\ UNCHANGED <<toast, editing, busyByOwner, loads, txLog, cfg, ownerList, nEvents>>
             /\ ActFrame("none")

\* the Safe's linked list: the predecessor swapOwner expects for an owner
prevInList(owners, owner) ==
  LET i == findIndex(owners, owner)
  IN IF i = 0 THEN "" ELSE IF i = 1 THEN SENTINEL ELSE owners[i - 1]

\* why the module rejects claimSafe(owner, prev) sent by `from`, "" when it
\* accepts: the sender is the owner's beneficiary, the activation time has
\* come, and the Safe's swapOwner(prev, owner, from) goes through
claimSafeRevert(m, from, owner, prev) ==
  LET c == heirConfigs(chainId, m, owner)
      owners == getOwners(chainId, safeAddr)
  IN IF c.beneficiary = ZeroAddress \/ toLowerCase(c.beneficiary) # toLowerCase(from)
       THEN "not beneficiary"
     ELSE IF c.ts = 0 \/ chainTime < c.ts THEN "not activated"
     ELSE IF findIndex(owners, owner) = 0 \/ findIndex(owners, from) # 0
             \/ prev # prevInList(owners, owner)
       THEN "swapOwner failed"
     ELSE ""

\* the node evaluates claimSafe.staticCall(owner, prev) on its latest block, or
\* the call fails on the way
ClaimEval(f, rpcFails) ==
  /\ f \in acts /\ f.pc = "dryRun"
  /\ acts' = (acts \ {f}) \cup
       {[f EXCEPT !.pc = "dryRunDone",
                  !.why = IF rpcFails THEN "call failed"
                          ELSE claimSafeRevert(f.module, f.from, f.owner, f.prev)]}
  /\ UNCHANGED <<toast, editing, busyByOwner, loads, txLog, cfg, ownerList, nEvents>>
  /\ ActFrame("none")

\* a dry-run whose outcome is not looked at
dryRunIgnored(why) == FALSE

\* try { await mod.claimSafe.staticCall(owner, prev) } catch (e) { throw ... }
dryRunFailed(why) == why # ""

\* await claimSafe.staticCall returns or throws: the failure reason is thrown
\* on, otherwise mod.claimSafe(owner, prev) is called with the same prev
ClaimDryRun(f) ==
  /\ f \in acts /\ f.pc = "dryRunDone"
  /\ IF dryRunFailed(f.why) THEN ActThrows(f, f.why, "dryRunFailed")
     ELSE ActSubmits(f, f, "claimSafe", <<f.owner, f.prev>>, "dryRunPassed")

\* push(message, "info") after the wallet returned the transaction
SentToast(kind) ==
  CASE kind = "doSet" -> "Beneficiary set, awaiting confirmation"
    [] kind = "doProlong" -> "Activation time updated, awaiting confirmation"
    [] kind = "doRemove" -> "Removing beneficiary"
    [] OTHER -> "Claim submitted, awaiting confirmation"

\* push(message, "success") after tx.wait()
MinedToast(kind) ==
  CASE kind = "doSet" -> "Beneficiary set"
    [] kind = "doProlong" -> "Activation time updated"
    [] kind = "doRemove" -> "Beneficiary removed"
    [] OTHER -> "Claim successful"

\* the awaited contract call returns the transaction or throws (the user
\* rejects the prompt, or the node refuses the call); a throw of
\* removeBeneficiary() is caught by the inner catch, which calls
\* setBeneficiary(ZeroAddress, 0)
ActSent(f, rejected) ==
  /\ f \in acts /\ f.pc = "sent"
  /\ IF rejected
       THEN IF f.kind = "doRemove" /\ f.call = "removeBeneficiary"
              THEN ActSubmits(f, [f EXCEPT !.beneficiary = ZeroAddress, !.ts = 0],
                              "setBeneficiary", <<ZeroAddress, 0>>, "fallback")
            ELSE ActThrows(f, "user rejected action", "txFailed")
     ELSE /\ acts' = (acts \ {f}) \cup {[f EXCEPT !.pc = "wait"]}
          /\ toast' = IF f.live THEN SentToast(f.kind) ELSE toast
          /\ UNCHANGED <<editing, busyByOwner, loads, txLog, cfg, ownerList, nEvents>>
          /\ ActFrame("none")

\* the module executes the call of f: does it go through
callAccepted(f) ==
  /\ <<chainId, f.safe, f.module>> \in modules
  /\ IF f.call = "claimSafe"
       THEN claimSafeRevert(f.module, f.from, f.owner, f.prev) = ""
     ELSE findIndex(getOwners(chainId, f.safe), f.from) # 0

\* module storage after the call of f
cfgAfter(f) ==
  CASE f.call = "setBeneficiary" ->
         [cfg EXCEPT ![f.from] = [beneficiary |-> f.beneficiary, ts |-> f.ts]]
    [] f.call = "setActivationTime" -> [cfg EXCEPT ![f.from].ts = f.ts]
    [] f.call = "removeBeneficiary" ->
         [cfg EXCEPT ![f.from] = [beneficiary |-> ZeroAddress, ts |-> 0]]
    [] OTHER -> [cfg EXCEPT ![f.owner] = [beneficiary |-> ZeroAddress, ts |-> 0]]

\* the Safe's owners after the call of f: claimSafe swaps the owner for the caller
ownersAfter(f) ==
  IF f.call = "claimSafe"
    THEN [i \in 1..Len(ownerList) |->
            IF toLowerCase(ownerList[i]) = toLowerCase(f.owner) THEN f.from ELSE ownerList[i]]
  ELSE ownerList

\* await tx.wait() returns or throws; on success the toast, setEditing(null)
\* in doSet and doProlong, and loadRows() starts
ActMined(f, reverted) ==
  /\ f \in acts /\ f.pc = "wait"
  /\ IF reverted \/ ~callAccepted(f)
       THEN ActThrows(f, "transaction failed", "txFailed")
     ELSE /\ cfg' = cfgAfter(f)
          /\ ownerList' = ownersAfter(f)
          /\ acts' = (acts \ {f}) \cup {[f EXCEPT !.pc = "reload"]}
          /\ toast' = IF f.live THEN MinedToast(f.kind) ELSE toast
          /\ editing' = IF f.live /\ f.kind \in {"doSet", "doProlong"} THEN NoEdit ELSE editing
          /\ loads' = loads \cup (IF f.live THEN reloadStart(f.safe, f.module, f.id)
                                  ELSE orphaned({f}))
          /\ UNCHANGED <<busyByOwner, txLog, nEvents>>
          /\ ActFrame("mined")

\* await loadRows() returns (loadRows catches its own errors); finally:
\* busyByOwner[owner] = false
ActReloaded(f) ==
  /\ f \in acts /\ f.pc = "reload"
  /\ ~\E l \in loads : l.by = f.id
  /\ acts' = acts \ {f}
  /\ busyByOwner' = IF f.live THEN busyByOwner \ {f.owner} ELSE busyByOwner
  /\ UNCHANGED <<toast, editing, loads, txLog, cfg, ownerList, nEvents>>
  /\ ActFrame("none")

\* the chain is shared: the owner removes the configuration from another session
RemovedElsewhere(o) ==
  /\ o \in Range(ownerList)
  /\ cfg[o].beneficiary # ZeroAddress
  /\ cfg' = [cfg EXCEPT ![o] = [beneficiary |-> ZeroAddress, ts |-> 0]]
  /\ UNCHANGED <<acts, toast, editing, busyByOwner, loads, txLog, ownerList, nEvents>>
  /\ ActFrame("none")

\* the owners of the Safe execute swapOwner: owner o is replaced by "Oc"
SwappedElsewhere(o) ==
  /\ o \in Range(ownerList) /\ "Oc" \notin Range(ownerList)
  /\ ownerList' = [i \in 1..Len(ownerList) |-> IF ownerList[i] = o THEN "Oc" ELSE ownerList[i]]
  /\ UNCHANGED <<acts, toast, editing, busyByOwner, loads, txLog, cfg, nEvents>>
  /\ ActFrame("none")

----------------------------------------------------------------------------
(* A mounted OwnersView of Safe SA with its module installed and its rows  *)
(* loaded.  The actions are explored in three specifications: an owner at  *)
(* the wallet sets and prolongs while the clock runs; an owner removes;    *)
(* the heir at the wallet claims while the Safe's owners may change        *)

\* the first render after the rows of Safe SA were loaded, wallet on account w
InitLoaded(w) ==
  /\ InitCommon
  /\ scope = 1
  /\ chainId = "X"
  /\ safeAddr = "SA"
  /\ safeCheck = Ok(getOwners("X", "SA"), getThreshold("X", "SA"))
  /\ predicted = "MA" /\ deployed = "true" /\ enabled = "true"
  /\ status = "" /\ passes = {}
  /\ isSafeApp = FALSE
  /\ walletAccount = w
  /\ chainTime = 1 /\ wallClock = 1
  /\ cfg \in {c \in Configs : c["Oa"].ts = IF c["Oa"].beneficiary = ZeroAddress THEN 0 ELSE 2}
  /\ viewInst = 1
  /\ rows = [i \in 1..Len(getOwners("X", "SA")) |->
               configRow("X", "MA", getOwners("X", "SA")[i], FALSE)]
  /\ signerAddr = walletAccount /\ busyByOwner = {}
  /\ nowSec = wallClock /\ chainTs = chainTime /\ pollTimers = 0 /\ pollReads = {}
  /\ signerReads = {} /\ loads = {}

\* steps every action shares; the heirConfigs reads of the owners in `failing`
\* may throw
NextShared(failing) ==
  \/ \E f \in acts, b \in BOOLEAN : ActSent(f, b)
  \/ \E f \in acts, b \in BOOLEAN : ActMined(f, b)
  \/ \E f \in acts : ActReloaded(f)
  \/ \E l \in loads, f \in BOOLEAN : LoadOwners(l, f)
  \/ \E l \in loads, f \in BOOLEAN : LoadCode(l, f)
  \/ \E l \in loads, fs \in SUBSET failing : LoadConfigs(l, fs)

\* the user switches the wallet's account once the view has caught up with the
\* account
WalletSwitch(a) == signerReads = {} /\ AccountsChanged(a)

InitSet == InitLoaded("Oa")

NextSet ==
  \/ \E r \in Range(rows) : EditOpen(r)
  \/ EditCancel
  \/ \E b \in {ZeroAddress, "Ha"}, t \in 2..MaxTime : SaveSet(b, t)
  \/ \E t \in 2..MaxTime : SaveProlong(t)
  \/ \E f \in acts, b \in BOOLEAN : SetSigner(f, b)
  \/ \E f \in acts, b \in BOOLEAN : ProlongSigner(f, b)
  \/ NextShared({})
  \/ \E a \in {"Oa", "Ha"} : WalletSwitch(a)
  \/ \E a \in Accounts : SignerRead(a, FALSE)
  \/ WallClockAdvance

SpecSet == InitSet /\ [][NextSet]_vars

InitRemove == InitLoaded("Oa")

NextRemove ==
  \/ \E r \in Range(rows), c \in BOOLEAN : RemoveClick(r, c)
  \/ \E f \in acts, b \in BOOLEAN : RemoveSigner(f, b)
  \/ NextShared({"Ob"})
  \/ \E a \in {"Oa", "Ha"} : WalletSwitch(a)
  \/ \E a \in Accounts : SignerRead(a, FALSE)
  \/ RemovedElsewhere("Oa")

SpecRemove == InitRemove /\ [][NextRemove]_vars

InitClaim == InitLoaded("Ha")

NextClaim ==
  \/ \E r \in Range(rows) : ClaimClick(r)
  \/ \E f \in acts, b \in BOOLEAN : ClaimSigner(f, b)
  \/ \E f \in acts, b \in BOOLEAN : ClaimPrev(f, b)
  \/ \E f \in acts, b \in BOOLEAN : ClaimEval(f, b)
  \/ \E f \in acts : ClaimDryRun(f)
  \/ NextShared({})
  \/ \E o \in Owners : SwappedElsewhere(o)
  \/ RemovedElsewhere("Ob")

SpecClaim == InitClaim /\ [][NextClaim]_vars

\* doProlong("Oa", 3) of the mounted view after its tx.wait() returned: the
\* handler waits for the loadRows() it started
ProlongReloading ==
  [live |-> TRUE, id |-> 0, kind |-> "doProlong", pc |-> "reload", owner |-> "Oa",
   beneficiary |-> "", ts |-> MaxTime, from |-> "Oa", prev |-> "", n |-> 1,
   call |-> "setActivationTime", why |-> "", safe |-> "SA", module |-> "MA"]

\* the view of InitLoaded("Oa") after the owner's prolong was confirmed: the
\* rows still show the first load, the reload of the handler is in flight
InitReloading ==
  /\ flows = {} /\ instructions = <<>> /\ note = ""
  /\ txLog = {[kind |-> "setActivationTime", act |-> "doProlong", id |-> 0, owner |-> "Oa",
               from |-> "Oa", to |-> "MA", chain |-> "X", args |-> <<MaxTime>>, at |-> 1,
               n |-> 1]}
  /\ modules = {<<"X", "SA", "MA">>}
  /\ ownerList = <<"Oa", "Ob">>
  /\ acts = {ProlongReloading} /\ toast = MinedToast("doProlong") /\ editing = NoEdit
  /\ lastStep = "mined" /\ nEvents = 0 /\ staleLoad = "none"
  /\ arg = <<>> /\ res = <<>> /\ loc = <<>>
  /\ scope = 1
  /\ chainId = "X"
  /\ safeAddr = "SA"
  /\ safeCheck = Ok(getOwners("X", "SA"), getThreshold("X", "SA"))
  /\ predicted = "MA" /\ deployed = "true" /\ enabled = "true"
  /\ status = "" /\ passes = {}
  /\ isSafeApp = FALSE
  /\ walletAccount = "Oa"
  /\ chainTime = 1 /\ wallClock = 1
  /\ cfg \in {c \in Configs : c["Oa"] = [beneficiary |-> "Ha", ts |-> MaxTime]}
  /\ viewInst = 1
  /\ rows = <<[owner |-> "Oa", beneficiary |-> "Ha", ts |-> 2],
              [owner |-> "Ob", beneficiary |-> "Ha", ts |-> 1]>>
  /\ signerAddr = "Oa" /\ busyByOwner = {"Oa"}
  /\ nowSec = 1 /\ chainTs = 1 /\ pollTimers = 0 /\ pollReads = {}
  /\ signerReads = {} /\ loads = reloadStart("SA", "MA", 0)

\* the owner removes while the reload is in flight; every read succeeds; the
\* owners of the Safe may swap Ob out
NextReloading ==
  \/ \E r \in Range(rows) : RemoveClick(r, TRUE)
  \/ \E f \in acts : RemoveSigner(f, FALSE)
  \/ \E f \in acts : ActSent(f, FALSE)
  \/ \E f \in acts : ActMined(f, FALSE)
  \/ \E f \in acts : ActReloaded(f)
  \/ \E l \in loads : LoadOwners(l, FALSE)
  \/ \E l \in loads : LoadCode(l, FALSE)
  \/ \E l \in loads : LoadConfigs(l, {})
  \/ SwappedElsewhere("Ob")

SpecReloading == InitReloading /\ [][NextReloading]_vars

\* a view mounted for Safe SA, inside or outside a Safe iframe, with the module
\* address not predicted yet, predicted and not enabled, or predicted and enabled
InitStart ==
  /\ isSafeApp \in BOOLEAN
  /\ \E w \in {"Oa", "Ha"} :
       \/ InitMounted("", Null, Null, w)
       \/ InitMounted("MA", "true", "false", w)
       \/ InitMounted("MA", "true", "true", w)

\* the rows and the signer are read, the clock runs and the poll brings the
\* chain time, the user
\* switches accounts and uses every button the view offers
NextStart ==
  \/ \E l \in loads : LoadOwners(l, FALSE)
  \/ \E l \in loads : LoadCode(l, FALSE)
  \/ \E l \in loads : LoadConfigs(l, {})
  \/ \E a \in {"Oa", "Ha"} : WalletSwitch(a)
  \/ \E a \in Accounts, f \in BOOLEAN : SignerRead(a, f)
  \/ WallClockAdvance
  \/ Tick
  \/ PollFire
  \/ \E t \in 0..MaxTime : PollReadOk(t)
  \/ \E r \in Range(rows) : EditOpen(r)
  \/ EditCancel
  \/ \E b \in {ZeroAddress, "Ha"}, t \in 2..MaxTime : SaveSet(b, t)
  \/ \E t \in 2..MaxTime : SaveProlong(t)
  \/ \E r \in Range(rows), c \in BOOLEAN : RemoveClick(r, c)
  \/ \E r \in Range(rows) : ClaimClick(r)
  \/ \E f \in acts : SetSigner(f, TRUE)
  \/ \E f \in acts : ProlongSigner(f, TRUE)
  \/ \E f \in acts : RemoveSigner(f, TRUE)
  \/ \E f \in acts : ClaimSigner(f, TRUE)

SpecStart == InitStart /\ [][NextStart]_vars

----------------------------------------------------------------------------
(* Properties of the reconciliation scope *)

installState == <<safeCheck, predicted, deployed, enabled, status>>

\* C1: a continuation of refreshInstallState that resumes after the scope
\* counter has moved past the value it captured writes nothing to safeCheck,
\* predicted, deployed, enabled or status, on the success and the error path
C1_StalePassWritesNothing ==
  [][\A p \in passes :
       (p.myScope # scope /\ p \notin passes') => installState' = installState]_vars

\* a stale continuation has resumed and returned without writing
C1_Witness == lastStep \in {"dropped", "droppedError"} /\ passes # {}

RowOwners(rs) == [i \in 1..Len(rs) |-> rs[i].owner]

\* C2: the rows shown are those of the Safe on the current network: a load
\* started before a network change never fills the rows of the new network
C2_RowsOfCurrentNetwork ==
  (viewInst = 1 /\ rows # <<>>) => RowOwners(rows) = getOwners(chainId, safeAddr)

\* a load that was in flight when the network changed has resolved, and the
\* view of the new network shows its rows
C2_Witness == staleLoad = "resolved" /\ viewInst = 1 /\ rows # <<>>

Triggers ==
  {"networkDetected", "chainChanged", "refreshClick", "passOnSafeAddr", "accountsChanged"}

\* C3: every triggering event (network change, account change, refresh, start
\* of a resolution pass) bumps the scope counter
C3_EveryTriggerBumps == [][lastStep' \in Triggers => scope' > scope]_vars

\* C4: every triggering event increments the scope counter by exactly one
C4_ExactlyOneBumpPerEvent == [][lastStep' \in Triggers => scope' = scope + 1]_vars

----------------------------------------------------------------------------
(* Properties of the dual-clock countdown *)

ShownRows == IF viewInst = 1 THEN Range(rows) ELSE {}

Synchronizing(r) == r.ts # 0 /\ nowSec >= r.ts /\ chainTs < r.ts

\* C5 (as stated): with the signer being the row's beneficiary, the module
\* enabled and the row not busy, the claim action is enabled if and only if
\* chainTs >= T
C5_ClaimIffChainReady ==
  \A r \in ShownRows :
    (signerIsBeneficiary(r) /\ enabled = "true" /\ ~rowBusy(r))
      => (ClaimEnabled(r) <=> chainTs >= r.ts)

\* C5 (amended): with the signer being the row's beneficiary, the module
\* enabled, the row not busy and the app not running as a Safe App, the claim
\* action is enabled if and only if chainTs >= T; in particular it is disabled
\* for chainTs < T however far nowSec is past T
C5_ClaimIffChainReadyOutsideSafeApp ==
  \A r \in ShownRows :
    (signerIsBeneficiary(r) /\ enabled = "true" /\ ~rowBusy(r) /\ ~isSafeApp)
      => (ClaimEnabled(r) <=> chainTs >= r.ts)

\* the beneficiary is connected outside a Safe App, the local clock is past T,
\* the chain timestamp known is behind T and the claim action is disabled
C5_Witness ==
  \E r \in ShownRows :
    /\ signerIsBeneficiary(r) /\ enabled = "true" /\ ~rowBusy(r) /\ ~isSafeApp
    /\ chainTs > 0 /\ chainTs < r.ts /\ nowSec > r.ts
    /\ ~ClaimEnabled(r)

\* C6: a row with a non-zero beneficiary and activation timestamp 0 never has
\* its claim action enabled
C6_UnsetTimestampNeverClaimable ==
  \A r \in ShownRows :
    (r.beneficiary # ZeroAddress /\ r.ts = 0) => ~ClaimEnabled(r)

\* C7: a row that displays a countdown or the Synchronizing indicator has its
\* claim action disabled
C7_ClaimOnlyWhenAvailable ==
  \A r \in ShownRows :
    Display(r) \in {"CountingDown", "Synchronizing"} => ~ClaimEnabled(r)

\* C8: exactly one poll timer exists while some row of the mounted view is
\* Synchronizing, and none otherwise
C8_PollTimerIffSynchronizing ==
  pollTimers = IF viewInst = 1 /\ needsSync(rows, nowSec, chainTs) THEN 1 ELSE 0

\* the poll has run (a chain timestamp arrived) and its timer has been
\* released because no row is Synchronizing any more
C8_Witness ==
  /\ viewInst = 1 /\ rows # <<>> /\ chainTs > 0
  /\ ~needsSync(rows, nowSec, chainTs) /\ pollTimers = 0

\* the row of owner o with activation T is shown and is Synchronizing
SynchronizingRow(o, T) ==
  \E r \in ShownRows : r.owner = o /\ r.ts = T /\ Synchronizing(r)

\* the row of owner o with activation T is shown as Available, with its claim
\* action enabled for the connected beneficiary
AvailableRow(o, T) ==
  \E r \in ShownRows :
    /\ r.owner = o /\ r.ts = T /\ Display(r) = "Available"
    /\ (signerIsBeneficiary(r) /\ canWriteGlobally) => ClaimEnabled(r)

\* C9: under a fair poll, with blocks being produced and reads of the latest
\* block succeeding eventually, a Synchronizing row becomes Available (unless
\* the view is unmounted first)
C9_SynchronizingLeadsToAvailable ==
  \A o \in {"Oa", "Ob"} : \A T \in 1..MaxTime :
    SynchronizingRow(o, T) ~> (AvailableRow(o, T) \/ viewInst = 0)

\* a row that went through Synchronizing is Available and the timer is released
C9_Witness ==
  /\ \E r \in ShownRows : r.ts # 0 /\ Display(r) = "Available" /\ ClaimEnabled(r)
  /\ pollTimers = 0 /\ chainTs > 0

----------------------------------------------------------------------------
(* Properties of the enable flow *)

Names(ins) == Range(ins)

\* C11: an enable flow that finds a threshold above 1 (module deployed, not
\* enabled) leaves an instruction payload that names the Safe address as the
\* target, the function enableModule and the predicted module address
C11_InstructionPayloadAboveThreshold1 ==
  [][lastStep' = "thresholdAbove1" =>
       {safeAddr, "enableModule(address)", predicted} \subseteq Names(instructions')]_vars

C13_DeployFlowSubmits ==
  [][(/\ lastStep' = "deploySigner"
      /\ deployed = "false"
      /\ getThreshold(chainId, safeAddr) = 1
      /\ isOwner(getOwners(chainId, safeAddr), walletAccount))
       => \E tx \in txLog' : tx.kind = "deploy"]_vars

----------------------------------------------------------------------------
(* Properties of the owner actions *)

\* the calls a step hands to the wallet
Submitted == txLog' \ txLog

\* C14: doSet hands a setBeneficiary call to the wallet only if the wallet's
\* account is the row's owner, the beneficiary is a well-formed address other
\* than the zero address, and the activation time is strictly later than the
\* wall-clock second of the submission
C14_SetOnlyWithValidInputs ==
  \A tx \in txLog :
    tx.act = "doSet" =>
      /\ toLowerCase(tx.from) = toLowerCase(tx.owner)
      /\ isAddress(tx.args[1]) /\ tx.args[1] # ZeroAddress
      /\ tx.args[2] > tx.at

\* C15: doProlong hands a setActivationTime call to the wallet only if the
\* wallet's account is the row's owner and the new activation time is strictly
\* later than the wall-clock second of the submission (the current second is
\* rejected)
C15_ProlongOnlyByOwnerInFuture ==
  \A tx \in txLog :
    tx.act = "doProlong" =>
      /\ tx.kind = "setActivationTime"
      /\ toLowerCase(tx.from) = toLowerCase(tx.owner)
      /\ tx.args[1] > tx.at

\* a prolongation to the very next second went out after the clock had moved on
C15_Witness ==
  \E tx \in txLog :
    tx.act = "doProlong" /\ tx.at > 1 /\ tx.args[1] = tx.at + 1

\* C16: one invocation of doRemove hands at most one call to the wallet: a
\* rejected or reverted removeBeneficiary() is not followed by a fallback call
C16_AtMostOneCallPerRemove ==
  \A tx \in txLog : tx.act = "doRemove" => tx.n = 1

\* C17: doRemove hands no call to the wallet for an owner whose configuration
\* is unset in the module
C17_NoRemoveWithoutConfiguration ==
  [][\A tx \in Submitted :
       tx.act = "doRemove" =>
         heirConfigs(tx.chain, tx.to, tx.owner).beneficiary # ZeroAddress]_vars

\* C18: a doClaim whose dry-run failed ends with the failure reason as its
\* toast and hands nothing to the wallet, and every claimSafe call handed to
\* the wallet is the call whose dry-run just passed
C18_FailedDryRunSubmitsNothing ==
  [][/\ \A f \in acts :
          (f.pc = "dryRunDone" /\ f.why # "" /\ f \notin acts') =>
            /\ txLog' = txLog
            /\ toast' = f.why
            /\ ~\E g \in acts' : g.id = f.id
     /\ \A tx \in Submitted :
          tx.kind = "claimSafe" =>
            \E f \in acts : /\ f.pc = "dryRunDone" /\ f.why = "" /\ f.id = tx.id
                            /\ tx.args = <<f.owner, f.prev>>]_vars

\* a claim was turned down by its dry-run because the configuration had been
\* removed in the meantime
C18_Witness ==
  lastStep = "dryRunFailed" /\ toast = "not beneficiary" /\ txLog = {} /\ acts = {}

\* C19: the predecessor in a claimSafe call handed to the wallet is the one
\* computePrevOwner gives for the Safe's owner list as it is at that moment
C19_PrevOwnerFreshAtSubmission ==
  [][\A tx \in Submitted :
       tx.kind = "claimSafe" =>
         computePrevOwner(getOwners(tx.chain, safeAddr), tx.args[1])
           = [ok |-> TRUE, value |-> tx.args[2]]]_vars

\* the positions of the list that hold the address, whatever its spelling
Positions(owners, owner) ==
  {i \in 1..Len(owners) : toLowerCase(owners[i]) = toLowerCase(owner)}

\* C20: computePrevOwner returns the address just before the owner (matched
\* case-insensitively) in the list of getOwners, the sentinel address when the
\* owner is the first element, and fails with 'Owner not in Safe' when the
\* owner is not in the list
C20_PrevOwnerOrSentinel ==
  res # <<>> =>
    LET at == Positions(arg.owners, arg.owner)
    IN IF at = {} THEN res[1] = [ok |-> FALSE, value |-> "Owner not in Safe"]
       ELSE IF 1 \in at THEN res[1] = [ok |-> TRUE, value |-> SENTINEL]
       ELSE \E i \in at : res[1] = [ok |-> TRUE, value |-> arg.owners[i - 1]]

----------------------------------------------------------------------------
(* Properties of the pagination loop *)

\* the module mapping is a list: from SENTINEL the chain comes back to SENTINEL
WellFormed(links) ==
  LET l == walk(links, link(links, SENTINEL), MaxModules)
  IN /\ \A i, j \in 1..Len(l) : i # j => l[i] # l[j]
     /\ (IF l = <<>> THEN link(links, SENTINEL) ELSE link(links, l[Len(l)])) = SENTINEL

totalModules(links) == Len(walk(links, link(links, SENTINEL), MaxModules))

\* ceil(n / PAGE)
pagesOf(n) == (n + PAGE - 1) \div PAGE

\* on a well-formed module list the loop makes at most ceil(totalModules / PAGE) + 1 calls
PagedCallsWithinBound ==
  WellFormed(arg.links) => loc.calls <= pagesOf(totalModules(arg.links)) + 1

\* C21: isModuleEnabled returns (or throws) for every module mapping, also
\* for one whose chain of cursors never comes back to SENTINEL and never
\* yields an empty page
C21_PaginationTerminates == <>(res # <<>>)

----------------------------------------------------------------------------
(* Properties of a pass and a row load over a module without code *)

\* C22: when the predicted module address has no code, the pass reports not
\* deployed and not enabled, no pass goes on to the enabled check and no row
\* load goes on to the heirConfigs reads, and the rows a finished load leaves
\* are one row per owner of the Safe with a zero beneficiary and activation 0
C22_NoReadsOfModuleWithoutCode ==
  /\ deployed = "false" => enabled = "false" /\ status = "Module not deployed"
  /\ \A p \in passes : p.pc = "checkEnabled" => getCode(p.chain, p.addr)
  /\ \A l \in loads : l.pc = "heirConfigs" => getCode(chainId, l.module)
  /\ (viewInst = 1 /\ loads = {} /\ isAddress(predicted) /\ ~getCode(chainId, predicted)
        /\ rows # <<>>)
       => LET owners == getOwners(chainId, safeAddr)
          IN /\ Len(rows) = Len(owners)
             /\ \A i \in 1..Len(rows) :
                  rows[i] = [owner |-> owners[i], beneficiary |-> ZeroAddress, ts |-> 0]

\* a pass and a row load have both finished over a predicted module without code
C22_Witness ==
  /\ deployed = "false" /\ enabled = "false"
  /\ isAddress(predicted) /\ ~getCode(chainId, predicted)
  /\ viewInst = 1 /\ loads = {} /\ passes = {}
  /\ Len(rows) = Len(getOwners(chainId, safeAddr)) /\ Len(rows) > 0

\* the row of owner o in the rows rs, <<>> when it has none
rowOf(rs, o) == SelectSeq(rs, LAMBDA r : r.owner = o)

\* C23: when a row load finishes, the row of every owner is what its own
\* heirConfigs read returns or, when that read failed, the row the owner had
\* before the load (zeros when it had none)
C23_FailedReadKeepsPriorRow ==
  [][\A l \in loads \ loads' :
       (l.pc = "heirConfigs" /\ viewInst = 1) =>
         /\ Len(rows') = Len(l.owners)
         /\ \A i \in 1..Len(rows') :
              \/ rows'[i] = configRow(chainId, l.module, l.owners[i], FALSE)
              \/ rowOf(rows, l.owners[i]) # <<>> /\ rows'[i] = rowOf(rows, l.owners[i])[1]
              \/ rowOf(rows, l.owners[i]) = <<>> /\ rows'[i] = ZeroRow(l.owners[i])]_vars

\* C24: when the call an action handed to the wallet fails (the prompt is
\* rejected, or the transaction reverts), the failure becomes the toast, the
\* displayed rows stay as they are, and a row load is started
C24_FailureStartsReload ==
  [][lastStep' = "txFailed" =>
       /\ toast' \in {"user rejected action", "transaction failed"}
       /\ rows' = rows
       /\ \E l \in loads' : l.pc = "getOwners"]_vars

----------------------------------------------------------------------------
(* Properties of the App on a network without a factory *)

\* C25: once the active network is one without a well-formed factory address,
\* the client comes to show the blocking message 'Factory not configured for
\* this network' (or the network changes again); it does not stay in the
\* checking state
C25_FactoryErrorShown ==
  (chainId # NoChain /\ ~readyForChain(chainId))
    ~> \/ readyForChain(chainId)
       \/ safeCheck = Invalid("Factory not configured for this network")

\* no pass is started for a network without a factory
NoPassWithoutFactory == \A p \in passes : readyForChain(p.chain)

----------------------------------------------------------------------------
(* Properties of validateSafeOnChain *)

\* C27: validateSafeOnChain answers ok, with the owners and the threshold it
\* read, exactly when the address is well-formed, has code, and reports at
\* least one owner and a threshold above 0; a malformed address gives
\* invalid_address, an address without code no_code, no owners or a
\* threshold of 0 not_safe, and a failing read gives an answer that is not ok
C27_ValidationOutcome ==
  res # <<>> =>
    LET v == res[1]
        wellFormed == isAddress(arg.addr)
        answered == wellFormed /\ ~arg.readFails
    IN /\ v.ok <=> (answered /\ arg.hasCode /\ Len(arg.owners) >= 1 /\ arg.th > 0)
       /\ v.ok => v.owners = arg.owners /\ v.threshold = arg.th
       /\ ~wellFormed => v.reason = "invalid_address"
       /\ (answered /\ ~arg.hasCode) => v.reason = "no_code"
       /\ (answered /\ arg.hasCode /\ (Len(arg.owners) = 0 \/ arg.th <= 0))
            => v.reason = "not_safe"
       /\ (wellFormed /\ arg.readFails) => ~v.ok /\ v.reason = "not_safe"

\* a Safe with two owners and threshold 2 was validated
C27_Witness ==
  res # <<>> /\ res[1].ok /\ Len(res[1].owners) = 2 /\ res[1].threshold = 2

----------------------------------------------------------------------------
(* Properties of the catch block of refreshInstallState *)

\* C26: a read of a resolution pass that fails, by a transient error or by
\* the "network changed" error of a chain switch, writes no error status and
\* leaves predicted, deployed and enabled as they were
C26_TransientErrorAbsorbed ==
  [][lastStep' \in {"absorbed", "readFailed"} =>
       /\ status' = status
       /\ predicted' = predicted /\ deployed' = deployed /\ enabled' = enabled]_vars

\* C28: over a configured factory without code the pass ends with the status
\* "Error: Factory not deployed on this network", which no failed read
\* produces, with predicted, deployed and enabled reset to unknown, and no
\* pass goes on to the predictor
C28_FactoryNotDeployed ==
  [][/\ lastStep' = "factoryMissing" =>
          /\ status' = FactoryNotDeployed
          /\ predicted' = "" /\ deployed' = Null /\ enabled' = Null
          /\ ~getCode(chainId, normalizedFactory(chainId))
     /\ lastStep' = "readFailed" => status' # FactoryNotDeployed
     /\ \A p \in passes' :
          p.pc \in {"predict", "codeExists", "checkEnabled"}
            => getCode(p.chain, normalizedFactory(p.chain))]_vars

\* a pass over a valid Safe has just ended on a network whose factory has no code
C28_Witness ==
  /\ lastStep = "factoryMissing" /\ status = FactoryNotDeployed
  /\ readyForChain(chainId) /\ safeCheck.status = "ok"
  /\ predicted = "" /\ deployed = Null /\ enabled = Null

----------------------------------------------------------------------------
(* Properties of the countdown *)

\* C29: while a row counts down, the duration on display is the activation
\* time minus the local clock nowSec, whatever the chain reads have answered
C29_CountdownUsesLocalClock ==
  cdFuture(arg.target) => arg.target - refSec = arg.target - nowSec

\* C30: a remaining duration R = target - refSec > 0 is shown as days, hours
\* in 0..23, minutes in 0..59 and seconds in 0..59 that add up to R, with the
\* days unit exactly when days > 0 and the hours unit exactly when days > 0
\* or hours > 0; for target = 0 or R <= 0 nothing is rendered
C30_CountdownDecomposition ==
  res # <<>> =>
    LET c == res[1]
        R == arg.target - arg.refSec
        shows(u) == \E i \in 1..Len(c.units) : c.units[i] = u
    IN IF arg.target = 0 \/ R <= 0 THEN ~c.rendered /\ c.units = <<>>
       ELSE /\ c.rendered
            /\ c.days >= 0 /\ c.hours \in 0..23 /\ c.mins \in 0..59 /\ c.secs \in 0..59
            /\ c.days * 86400 + c.hours * 3600 + c.mins * 60 + c.secs = R
            /\ shows("d") <=> c.days > 0
            /\ shows("h") <=> (c.days > 0 \/ c.hours > 0)

\* 59 minutes and 59 seconds are left and shown without an hours unit
C30_Witness ==
  /\ res # <<>> /\ res[1].rendered
  /\ res[1].days = 0 /\ res[1].hours = 0 /\ res[1].mins = 59 /\ res[1].secs = 59
  /\ res[1].units = <<"m", "s">>

----------------------------------------------------------------------------
(* Properties of isModuleEnabled *)

\* the target is on the page, whatever its spelling
onPage(page, module) ==
  \E i \in 1..Len(page.array) : toLowerCase(page.array[i]) = toLowerCase(module)

\* C31: the traversal starts at the sentinel; isModuleEnabled returns true
\* exactly on a page that holds the target in any spelling, returns false
\* exactly on a page without it whose next cursor is the sentinel or which is
\* empty, and otherwise goes on from the page's next cursor; a module it
\* reports is one stored in the Safe's list
C31_EnabledIffOnSomePage ==
  [][LET page == getModulesPaginated(arg.links, arg.version, loc.cursor, PAGE)
     IN /\ (loc.calls = 0 => loc.cursor = SENTINEL)
        /\ (page.ok /\ res = <<>> /\ res' # res) =>
             /\ res' = <<"true">> <=> onPage(page, arg.module)
             /\ res' = <<"false">> <=>
                  (~onPage(page, arg.module)
                     /\ (page.next = SENTINEL \/ page.array = <<>>))
             /\ res' = <<"true">> =>
                  \E i \in 1..MaxModules :
                    LET all == walk(arg.links, link(arg.links, SENTINEL), MaxModules)
                    IN i <= Len(all) /\ toLowerCase(all[i]) = toLowerCase(arg.module)
        /\ (page.ok /\ res = <<>> /\ res' = res /\ loc' # loc) =>
             /\ ~onPage(page, arg.module)
             /\ page.next # SENTINEL /\ page.array # <<>>
             /\ loc'.cursor = page.next]_vars

\* the target, spelled in lower case, was found on the second page
C31_Witness ==
  res = <<"true">> /\ loc.calls = 2 /\ arg.module = "ma"

----------------------------------------------------------------------------
(* Properties of the reconciliation after a confirmed transaction *)

----------------------------------------------------------------------------
(* Properties of the preflight of enable() *)

\* C33: a step of enable() hands nothing to the wallet while it validates the Safe and
\* reads the signer, and a failed threshold or owner check ends it there; at
\* the preflight it submits exactly when the call succeeds or fails without
\* revert data, for a Safe of threshold 1 and a sender among its owners; a
\* revert with a reason (GS025, GS026) or any other error ends it with that
\* reason as the note and nothing sent
C33_PreflightFailureSendsNothing ==
  [][\A f \in flows \ flows' :
       (f.kind = "enable" /\ [f EXCEPT !.live = FALSE] \notin flows') =>
         /\ f.pc \in {"validate", "getSigner"} => txLog' = txLog
         /\ (f.pc = "validate" /\ getThreshold(chainId, f.safe) # 1) =>
              \A g \in flows' \ flows : g.kind # "enable"
         /\ (f.pc = "getSigner" /\ ~isOwner(f.owners, walletAccount)) =>
              \A g \in flows' \ flows : g.kind # "enable"
         /\ f.pc = "preflight" =>
              /\ IF lastStep' \in {"preflight ok", "preflight no reason",
                                    "preflight missing data"}
                   THEN ExecTx(f, f.from) \in txLog'
                   ELSE txLog' = txLog
              /\ txLog' # txLog =>
                   /\ txLog' \ txLog = {ExecTx(f, f.from)}
                   /\ isOwner(f.owners, f.from)
                   /\ getThreshold(chainId, f.safe) = 1
              /\ lastStep' \in {"preflight GS025", "preflight GS026"} =>
                   /\ txLog' = txLog
                   /\ f.live => note' \in {"GS025", "GS026"}
                   /\ \A g \in flows' \ flows : g.kind # "enable"]_vars

\* the preflight has reverted with GS025: the reason is shown, nothing was sent
C33_Witness ==
  lastStep = "preflight GS025" /\ note = "GS025" /\ txLog = {} /\ flows = {}

----------------------------------------------------------------------------
(* Properties of the displayed install state *)

\* C34: the displayed predicted, deployed and enabled come from one
\* resolution pass for the current Safe address and network: enabled is true
\* only with deployed true, and a displayed deployed or enabled is what the
\* chain holds for the displayed predicted address and the current Safe
C34_TripleFromOnePass ==
  /\ enabled = "true" => deployed = "true"
  /\ (predicted # "" /\ deployed # Null) => deployed = B(getCode(chainId, predicted))
  /\ (predicted # "" /\ enabled # Null) =>
       enabled = B(getCode(chainId, predicted)
                   /\ checkEnabled(chainId, safeAddr, predicted))

\* C35: once no pass is in flight, the displayed safeCheck, predicted,
\* deployed and enabled are those of the Safe address in the field, also when
\* the address was changed while the pass of the previous address was running
C35_LatestAddressWins ==
  (passes = {} /\ chainId # NoChain) =>
    LET m == predictModuleForSafe(chainId, normalizedFactory(chainId), safeAddr)
    IN /\ safeCheck = Ok(getOwners(chainId, safeAddr), getThreshold(chainId, safeAddr))
       /\ predicted = m
       /\ deployed = B(getCode(chainId, m))
       /\ enabled = B(getCode(chainId, m) /\ checkEnabled(chainId, safeAddr, m))

----------------------------------------------------------------------------
(* Properties of the busy flag of a row *)

\* C36: while a set, prolong, remove or claim of an owner is in flight in the
\* mounted view, the row of that owner is busy and its action buttons and its
\* claim button are disabled
C36_RowBusyWhileInFlight ==
  \A f \in acts :
    f.live =>
      \A r \in Range(rows) :
        toLowerCase(r.owner) = toLowerCase(f.owner) =>
          rowBusy(r) /\ disableRowActions(r) /\ disableClaim(r)

----------------------------------------------------------------------------
(* Properties of the signer and row reads of a mounted view *)

\* C37: once every updateFromWallet read of the mounted view has returned,
\* signerAddr is the wallet's current account
C37_SignerIsCurrentAccount ==
  (viewInst = 1 /\ signerReads = {}) => signerAddr = walletAccount

\* C38: when a load of the mounted view ends after a load that was started
\* later has already ended, the rows the later load displayed stay
C38_LatestLoadWins ==
  [][\A l \in loads \ loads' :
       (/\ l.live /\ [l EXCEPT !.live = FALSE] \notin loads'
        /\ \A k \in loads' \ loads : k.by # l.by
        /\ \E f \in acts : /\ f.live /\ f.pc = "reload" /\ f.id > l.by
                           /\ ~\E k \in loads : k.by = f.id)
       => rows' = rows]_vars

\* C39: a set, prolong, remove or claim starts only in a view mounted under
\* safeCheck ok, with a well-formed predicted module address, the module
\* reported enabled and outside a Safe iframe; set, prolong and remove start
\* only when signerAddr is the owner of the row, claim only when signerAddr is
\* the non-zero beneficiary of the row
C39_StartPreconditions ==
  [][\A f \in acts' \ acts :
       (f.live /\ f.pc = "getSigner") =>
         /\ viewInst = 1 /\ safeCheck.status = "ok"
         /\ isAddress(predicted) /\ enabled = "true" /\ ~isSafeApp
         /\ signerAddr # ""
         /\ IF f.kind = "doClaim"
              THEN \E r \in Range(rows) :
                     /\ r.owner = f.owner /\ r.beneficiary # ZeroAddress
                     /\ toLowerCase(signerAddr) = toLowerCase(r.beneficiary)
            ELSE /\ toLowerCase(signerAddr) = toLowerCase(f.owner)
                 /\ \E r \in Range(rows) : r.owner = f.owner]_vars

C39_Witness ==
  /\ \E f \in acts : f.live /\ f.pc = "getSigner" /\ f.kind = "doClaim" /\ f.owner = "Ob"
  /\ signerAddr = "Ha" /\ enabled = "true" /\ ~isSafeApp

----------------------------------------------------------------------------
(* Properties of the install controls across network changes *)

\* C40: a deploy or enable starts only with safeCheck ok, enabled exactly
\* false and deployed known; a network change leaves safeCheck not ok and
\* deployed and enabled null; and enabled becomes known again only by the
\* last write of a pass of the current scope started for the current network
C40_InstallOnlyInCurrentEpoch ==
  [][/\ (nEvents' # nEvents /\ flows' \ flows # {}) =>
          /\ safeCheck.status = "ok" /\ enabled = "false" /\ deployed # Null
          /\ \A f \in flows' \ flows : f.chain = chainId /\ f.safe = safeAddr
     /\ lastStep' \in {"networkDetected", "chainChanged"} =>
          /\ safeCheck'.status # "ok" /\ deployed' = Null /\ enabled' = Null
          /\ ~CanClickDeploy' /\ ~CanClickEnable'
     /\ (enabled' # enabled /\ enabled' # Null) =>
          /\ chainId' = chainId /\ scope' = scope
          /\ \E p \in passes \ passes' :
               /\ p.pc \in {"codeExists", "checkEnabled"}
               /\ p.myScope = scope /\ p.chain = chainId]_vars

C40_Witness ==
  /\ chainId = "Y" /\ safeCheck.status = "ok" /\ enabled = "false" /\ deployed # Null
  /\ \E f \in flows : ~f.live /\ f.chain = "X"
  /\ \E f \in flows : f.live /\ f.chain = "Y"

====
